---------------------------- MODULE Spec2Model ----------------------------
(***************************************************************************)
(* freeflix: the cron-driven Schedule Supervisor (app/cron/jobs.py, with   *)
(* the RunNow endpoint of app/api/schedules.py) and the Job Orchestrator   *)
(* (app/torrent/manager.py) over the Job Repository (app/database).        *)
(*                                                                         *)
(* Three specifications share the variables:                               *)
(*   Spec        the Schedule Supervisor over one schedule: polling loop,  *)
(*               RunNow, direct ExecuteSchedule calls, shutdown, exit and  *)
(*               restart;                                                  *)
(*   SpecFiring  one schedule firing over catalogs of up to MaxCandidates  *)
(*               candidates (the selection algorithm);                     *)
(*   SpecJobs    the Job Orchestrator over one job: lifecycle calls, the   *)
(*               engine, the reconciliation tick, shutdown, restart.       *)
(* The process is one asyncio event loop: code between two awaits runs     *)
(* without interleaving, so every action is one such segment.              *)
(***************************************************************************)
EXTENDS Integers, Sequences, FiniteSets, TLC

\* ------------------------------------------------------------------ bounds
MaxTime == 2          \* the clock runs 0..MaxTime
MaxPeriod == 2        \* a cron expression is modelled by its period, 1..MaxPeriod
MaxDownloads == 2     \* max_downloads of the schedule of SpecFiring, 1..MaxDownloads
MaxPollDownloads == 1 \* max_downloads of a schedule added in Spec, 1..MaxPollDownloads
MaxCandidates == 5    \* longest catalog answer in SpecFiring
MaxPollCandidates == 1 \* longest catalog answer in Spec
MaxRating == 2        \* ratings are 1..MaxRating
MaxLogs == 2          \* schedLogs keeps the most recent MaxLogs entries
MaxPending == 1       \* RunNow background tasks queued per schedule
MaxTorrentLogs == 2   \* torrentLogs counts entries up to MaxTorrentLogs ("or more")
ProgressSteps == 2    \* the engine's progress is k/ProgressSteps, k in 0..ProgressSteps
MaxAlerts == 3        \* the engine queues at most MaxAlerts alerts between two drains
MaxHandles == 2       \* handles the engine makes per job in one process run
MaxSize == 2          \* a file has 0..MaxSize bytes
MaxFiles == 3         \* a torrent has at most MaxFiles files

ScheduleIds == {"s1"}
NULL == "NULL"

VARIABLES
    proc,          \* the server process: "down" | "up" | "stopping" | "stopped"
    now,           \* datetime.now()
    schedules,     \* table schedules: id -> row
    schedLogs,     \* table schedule_logs: id -> most recent entries
    executing,     \* ScheduleManager._currently_executing
    created,       \* tasks made by the polling loop that have not run yet (in _active_tasks)
    bgPending,     \* execute_schedule calls queued by RunNow as background tasks
    inflight,      \* executions past the guard, awaiting the catalog: id -> Seq
    pollPc,        \* _scheduler_task: "stopped" | "sleeping" | "staggering"
    pollRows,      \* the rows of the polling loop's query not yet looked at
    ret,           \* the last call: operation, id, input and what it returned
    torrents,      \* table torrents: id -> row
    torrentLogs,   \* table torrent_logs: id -> number of entries
    active,        \* TorrentManager.active_torrents: id -> handle
    session,       \* the engine session: handle -> engine status
    handleGen,     \* how many handles the engine has made for each job
    alerts,        \* the engine's alert queue (session.pop_alerts drains it)
    update_task,   \* TorrentManager.update_task: "none" | "running"
    content,       \* the torrents as the swarm has them: torrent id -> its files
    coro           \* the event loop: the task that runs, where each task is in its handler,
                   \* and how many reconciliation tasks are live

schedVars == <<proc, now, schedules, schedLogs, executing, created, bgPending,
               inflight, pollPc, pollRows>>
jobVars == <<torrents, torrentLogs, active, session, handleGen, alerts, update_task, content, coro>>
vars == <<schedVars, ret, jobVars>>

Min(a, b) == IF a < b THEN a ELSE b

\* ------------------------------------------------------------ cron helpers
\* croniter(expr, base).get_next(): the first firing strictly after base
NextCron(period, base) == ((base \div period) + 1) * period

\* Append to schedule_logs, keeping the most recent MaxLogs entries
LogAppend(log, entry) ==
    LET l == Append(log, entry)
    IN IF Len(l) > MaxLogs THEN SubSeq(l, Len(l) - MaxLogs + 1, Len(l)) ELSE l

NoResults == "none"
LogEntry(status, results) == [status |-> status, results |-> results]

\* ------------------------------------------------------------ the catalog
TorrentNames == <<"t1", "t2", "t3", "t4", "t5", "t6", "t7">>
Ratings == 1..MaxRating

\* str(uuid.uuid4()): the scraper gives every torrent it finds an id that no job has;
\* the ids of the first n + 1 names that the repository does not hold, in their order
FreshIds(n, used) ==
    SelectSeq(SubSeq(TorrentNames, 1, Min(n + 1, Len(TorrentNames))), LAMBDA x : x \notin used)

\* A catalog answer of at most n candidates: the k-th candidate carries the torrent
\* id ids[k], a rating, and whether it has a torrent of the schedule's quality
Catalogs(n, ids) ==
    UNION { { [i \in 1..k |-> [id |-> ids[i], rating |-> f[i][1], hasQ |-> f[i][2]]] :
                f \in [1..k -> Ratings \X BOOLEAN] } : k \in 0..Min(n, Len(ids)) }

\* list.sort(key=rating, reverse=True): stable, highest rating first
RECURSIVE InsertByRating(_, _)
InsertByRating(m, sorted) ==
    IF sorted = <<>> THEN <<m>>
    ELSE IF Head(sorted).rating >= m.rating
         THEN <<Head(sorted)>> \o InsertByRating(m, Tail(sorted))
         ELSE <<m>> \o sorted

\* The sort left out: the candidates stay in the catalog's order
KeepCatalogOrder(movies) == movies

RECURSIVE SortByRating(_)
SortByRating(movies) ==
    IF movies = <<>> THEN <<>>
    ELSE InsertByRating(movies[Len(movies)], SortByRating(SubSeq(movies, 1, Len(movies) - 1)))

\* The slice left out: every candidate is selected
SelectAllMovies(movies, max_downloads) == SortByRating(movies)

\* movies.sort(...); movies[:max_downloads]
SelectMovies(movies, max_downloads) ==
    SubSeq(SortByRating(movies), 1, Min(max_downloads, Len(movies)))

\* ------------------------------------------------- job repository and engine
\* A file of a torrent: the extension its path ends with, and its size
File(ext, size) == [ext |-> ext, size |-> size]

\* the ids a torrent can have
TorrentIds == {TorrentNames[i] : i \in DOMAIN TorrentNames}

\* The files of the torrents where the files are not looked at: a video and a text
DefaultFiles == <<File(".mp4", MaxSize), File(".txt", 1)>>

NoBlob == <<>>
NewTorrentRow == [state |-> "queued", progress |-> 0, error_message |-> NULL,
                  resume_data |-> NoBlob, deleted |-> FALSE, streaming_optimized |-> FALSE]

\* one more row in torrent_logs for job id
CountLog(logs, id) ==
    IF id \in DOMAIN logs
    THEN [logs EXCEPT ![id] = Min(@ + 1, MaxTorrentLogs)]
    ELSE (id :> 1) @@ logs

\* The engine's ordinal states (lt.torrent_status.state_t)
CheckingFiles == 1
DownloadingMetadata == 2
Downloading == 3
Finished == 4
Seeding == 5
Allocating == 6
CheckingResumeData == 7

\* TORRENT_STATES, indexed from 0 in the source
TORRENT_STATES == <<"queued", "checking", "downloading_metadata", "downloading",
                    "finished", "seeding", "allocating", "checking_fastresume">>

\* TORRENT_STATES[status.state]
StateName(ordinal) == TORRENT_STATES[ordinal + 1]

\* status.progress * 100
Percent(k) == (k * 100) \div ProgressSteps

\* A fresh engine status: a magnet starts by downloading its metadata, a torrent
\* added with resume data by checking it; the blob stands for what was on disk.
\* _add_torrent sets the sequential flag; no file has a priority of its own yet
NewEngineStatus(blob) ==
    [state |-> IF blob = NoBlob THEN DownloadingMetadata ELSE CheckingResumeData,
     progress |-> IF blob = NoBlob THEN 0 ELSE blob[1],
     paused |-> FALSE,
     sequential |-> TRUE,
     priorities |-> <<>>]

JobState == [torrents |-> torrents, torrentLogs |-> torrentLogs, active |-> active,
             session |-> session, handleGen |-> handleGen, update_task |-> update_task,
             loops |-> coro.live]

SetJobState(js) ==
    /\ torrents' = js.torrents
    /\ torrentLogs' = js.torrentLogs
    /\ active' = js.active
    /\ session' = js.session
    /\ handleGen' = js.handleGen
    /\ update_task' = js.update_task
    /\ coro' = [coro EXCEPT !.live = js.loops]
    /\ UNCHANGED content

GenOf(js, id) == IF id \in DOMAIN js.handleGen THEN js.handleGen[id] ELSE 0

\* The attach left out: no handle, nothing stored in active_torrents
NoAttach(js, id, blob) == js

\* TorrentManager._add_torrent: a new handle in the session, stored in active_torrents
AttachTorrent(js, id, blob) ==
    LET h == [job |-> id, gen |-> GenOf(js, id) + 1]
    IN [js EXCEPT !.session = (h :> NewEngineStatus(blob)) @@ js.session,
                  !.active = (id :> h) @@ js.active,
                  !.handleGen = (id :> h.gen) @@ js.handleGen]

\* The test left out: every start creates a task
StartAnew(js) == [js EXCEPT !.update_task = "running", !.loops = @ + 1]

\* TorrentManager.start_update_task: a task is created when update_task is None or
\* done; loops counts the tasks that run _update_torrents_status
StartUpdateTask(js) ==
    IF js.update_task = "none"
    THEN [js EXCEPT !.update_task = "running", !.loops = @ + 1]
    ELSE js

\* if self.update_task and not self.update_task.done(): cancel it and await its end
CancelUpdateTask(js) ==
    IF js.update_task = "running"
    THEN [js EXCEPT !.update_task = "none", !.loops = @ - 1]
    ELSE js

\* TorrentManager.add_torrent (CreateJob): [js, raised]
AddTorrent(js, id, attachFails) ==
    IF id \in DOMAIN js.torrents
    THEN \* the primary key exists: the insert raises and is rolled back
         [js |-> js, raised |-> TRUE]
    ELSE LET stored == [js EXCEPT !.torrents = (id :> NewTorrentRow) @@ js.torrents,
                                  !.torrentLogs = CountLog(js.torrentLogs, id)]
         IN IF attachFails
            THEN [js |-> [stored EXCEPT
                            !.torrents[id].state = "error",
                            !.torrents[id].error_message = "attach failed",
                            !.torrentLogs = CountLog(stored.torrentLogs, id)],
                  raised |-> TRUE]
            ELSE [js |-> StartUpdateTask(AttachTorrent(stored, id, NoBlob)),
                  raised |-> FALSE]

\* --------------------------------------------------- the Schedule Supervisor
NewSchedule(period, max_downloads, enabled) ==
    [enabled |-> enabled, period |-> period, max_downloads |-> max_downloads,
     last_run |-> <<>>, next_run |-> NextCron(period, now), status |-> NULL]

NoArg == <<>>
RetWith(op, id, res, arg) == [op |-> op, id |-> id, res |-> res, arg |-> arg]
Ret(op, id, res) == RetWith(op, id, res, NoArg)

\* ScheduleManager.add_schedule
AddSchedule(s, period, max_downloads, enabled) ==
    /\ proc = "up"
    /\ s \notin DOMAIN schedules
    /\ schedules' = (s :> NewSchedule(period, max_downloads, enabled)) @@ schedules
    /\ schedLogs' = (s :> <<>>) @@ schedLogs
    /\ ret' = Ret("add_schedule", s, "true")
    /\ UNCHANGED <<proc, now, executing, created, bgPending, inflight, pollPc, pollRows, jobVars>>

\* The recomputation left out: last_run and the status are stored, next_run is kept
KeepNextRun(scheds, logs, s, last_run, status) ==
    IF s \notin DOMAIN scheds
    THEN [schedules |-> scheds, schedLogs |-> logs]
    ELSE [schedules |-> [scheds EXCEPT ![s].last_run = <<last_run>>,
                                       ![s].status = status],
          schedLogs |-> [logs EXCEPT ![s] = LogAppend(@, LogEntry(status, NoResults))]]

\* ScheduleManager._update_next_run: [schedules, schedLogs]
UpdateNextRun(scheds, logs, s, last_run, status) ==
    IF s \notin DOMAIN scheds
    THEN [schedules |-> scheds, schedLogs |-> logs]
    ELSE [schedules |-> [scheds EXCEPT ![s].last_run = <<last_run>>,
                                       ![s].next_run = NextCron(scheds[s].period, last_run),
                                       ![s].status = status],
          schedLogs |-> [logs EXCEPT ![s] = LogAppend(@, LogEntry(status, NoResults))]]

\* The in-process guard left out: no call is ever found executing
NeverExecuting(ex, s) == FALSE

\* execute_schedule, the in-process guard: schedule_id in self._currently_executing
AlreadyExecuting(ex, s) == s \in ex

\* The guard narrowed: only a row whose last run completed is selected
OnlyCompletedRow(scheds, s) ==
    /\ s \in DOMAIN scheds
    /\ scheds[s].status = "completed"

\* execute_schedule, the repository guard: the row with this id whose last_run_status
\* != "running". In SQL a NULL status compares as unknown, so a row that never ran is
\* not selected either.
NotRunningRow(scheds, s) ==
    /\ s \in DOMAIN scheds
    /\ scheds[s].status # NULL
    /\ scheds[s].status # "running"

\* An execution awaiting browse_yts: who called it, and the max_downloads it read
NewExecution(via, max_downloads) == [via |-> via, max_downloads |-> max_downloads]

\* execute_schedule up to its first await (browse_yts):
\* [passed, schedules, executing, inflight]
BeginExecution(scheds, ex, fl, s, via) ==
    IF AlreadyExecuting(ex, s)
    THEN [passed |-> FALSE, schedules |-> scheds, executing |-> ex, inflight |-> fl]
    ELSE IF s \notin DOMAIN scheds \/ ~NotRunningRow(scheds, s)
    THEN \* added to the set, found missing or running, discarded again
         [passed |-> FALSE, schedules |-> scheds, executing |-> (ex \cup {s}) \ {s},
          inflight |-> fl]
    ELSE [passed |-> TRUE,
          schedules |-> [scheds EXCEPT ![s].status = "running"],
          executing |-> ex \cup {s},
          inflight |-> [fl EXCEPT ![s] = Append(@, NewExecution(via, scheds[s].max_downloads))]]

\* A call of ScheduleManager.execute_schedule by a caller of the public method
ExecuteSchedule(s) ==
    /\ proc = "up"
    /\ LET r == BeginExecution(schedules, executing, inflight, s, "direct")
       IN /\ schedules' = r.schedules
          /\ executing' = r.executing
          /\ inflight' = r.inflight
          /\ ret' = Ret("execute_schedule", s, IF r.passed THEN "awaiting" ELSE "false")
    /\ UNCHANGED <<proc, now, schedLogs, created, bgPending, pollPc, pollRows, jobVars>>

\* run_schedule (POST /{schedule_id}/run): the manual_run log entry, the status set
\* to "running", then execute_schedule inline or as a background task
RunNow(s, background) ==
    /\ proc = "up"
    /\ s \in DOMAIN schedules
    /\ LET marked == [schedules EXCEPT ![s].status = "running"]
           logged == [schedLogs EXCEPT ![s] = LogAppend(@, LogEntry("manual_run", NoResults))]
       IN IF background
          THEN /\ bgPending[s] < MaxPending
               /\ bgPending' = [bgPending EXCEPT ![s] = @ + 1]
               /\ schedules' = marked
               /\ schedLogs' = logged
               /\ ret' = Ret("run_now", s, "true")
               /\ UNCHANGED <<executing, inflight>>
          ELSE LET r == BeginExecution(marked, executing, inflight, s, "inline")
               IN /\ schedules' = r.schedules
                  /\ schedLogs' = logged
                  /\ executing' = r.executing
                  /\ inflight' = r.inflight
                  /\ ret' = Ret("run_now", s, IF r.passed THEN "awaiting" ELSE "false")
                  /\ UNCHANGED bgPending
    /\ UNCHANGED <<proc, now, created, pollPc, pollRows, jobVars>>

\* The background task queued by run_schedule runs execute_schedule
BackgroundRun(s) ==
    /\ proc = "up"
    /\ bgPending[s] > 0
    /\ bgPending' = [bgPending EXCEPT ![s] = @ - 1]
    /\ LET r == BeginExecution(schedules, executing, inflight, s, "background")
       IN /\ schedules' = r.schedules
          /\ executing' = r.executing
          /\ inflight' = r.inflight
          /\ ret' = Ret("background_run", s, IF r.passed THEN "awaiting" ELSE "false")
    /\ UNCHANGED <<proc, now, schedLogs, created, pollPc, pollRows, jobVars>>

\* _scheduler_task's test of one row, on the row as the iteration's query read it
DueRow(row, at) == row.next_run <= at /\ row.status # "running"

\* The rows of the iteration's query (enabled == True) that its test finds due, in the
\* order the query returned them
DueOrders ==
    LET due == {s \in DOMAIN schedules : schedules[s].enabled /\ DueRow(schedules[s], now)}
    IN {q \in [1..Cardinality(due) -> due] : \A i, j \in DOMAIN q : i # j => q[i] # q[j]}

\* The for loop up to its next launch: the first row not in _currently_executing
RECURSIVE NextLaunch(_, _)
NextLaunch(rows, ex) ==
    IF rows = <<>> THEN [launch |-> NULL, rest |-> <<>>]
    ELSE IF Head(rows) \notin ex THEN [launch |-> Head(rows), rest |-> Tail(rows)]
    ELSE NextLaunch(Tail(rows), ex)

\* Mark the schedule executing, create the task, sleep 2 s; or sleep 30 s at the end
PollLaunch(rows) ==
    LET r == NextLaunch(rows, executing)
    IN IF r.launch = NULL
       THEN /\ pollPc' = "sleeping"
            /\ pollRows' = <<>>
            /\ UNCHANGED <<executing, created>>
       ELSE /\ executing' = executing \cup {r.launch}
            /\ created' = [created EXCEPT ![r.launch] = @ + 1]
            /\ pollPc' = "staggering"
            /\ pollRows' = r.rest

\* _scheduler_task: one iteration begins
PollWake ==
    /\ proc = "up"
    /\ pollPc = "sleeping"
    /\ \E rows \in DueOrders : PollLaunch(rows)
    /\ UNCHANGED <<proc, now, schedules, schedLogs, bgPending, inflight, ret, jobVars>>

\* _scheduler_task: the iteration goes on after the 2 s stagger
PollResume ==
    /\ proc = "up"
    /\ pollPc = "staggering"
    /\ PollLaunch(pollRows)
    /\ UNCHANGED <<proc, now, schedules, schedLogs, bgPending, inflight, ret, jobVars>>

\* _execute_and_cleanup: the task made by the polling loop runs execute_schedule;
\* its finally discards the id when execute_schedule returns
TaskStart(s) ==
    /\ proc = "up"
    /\ created[s] > 0
    /\ created' = [created EXCEPT ![s] = @ - 1]
    /\ LET r == BeginExecution(schedules, executing, inflight, s, "poll")
       IN /\ schedules' = r.schedules
          /\ inflight' = r.inflight
          /\ executing' = IF r.passed THEN r.executing ELSE r.executing \ {s}
          /\ ret' = Ret("poll_task", s, IF r.passed THEN "awaiting" ELSE "false")
    /\ UNCHANGED <<proc, now, schedLogs, bgPending, pollPc, pollRows, jobVars>>

\* The per-candidate except left out: the loop ends with the first add_torrent that raises
RECURSIVE DownloadUntilFailure(_, _, _)
DownloadUntilFailure(js, selected, failing) ==
    IF selected = <<>> THEN [js |-> js, count |-> 0]
    ELSE LET m == Head(selected)
         IN IF ~m.hasQ
            THEN DownloadUntilFailure(js, Tail(selected), failing)
            ELSE LET r == AddTorrent(js, m.id, m.id \in failing)
                 IN IF r.raised
                    THEN [js |-> r.js, count |-> 0]
                    ELSE LET rest == DownloadUntilFailure(r.js, Tail(selected), failing)
                         IN [js |-> rest.js, count |-> rest.count + 1]

\* The loop over selected_movies: [js, count]
RECURSIVE DownloadMovies(_, _, _)
DownloadMovies(js, selected, failing) ==
    IF selected = <<>> THEN [js |-> js, count |-> 0]
    ELSE LET m == Head(selected)
         IN IF ~m.hasQ
            THEN DownloadMovies(js, Tail(selected), failing)
            ELSE LET r == AddTorrent(js, m.id, m.id \in failing)
                     rest == DownloadMovies(r.js, Tail(selected), failing)
                 IN [js |-> rest.js,
                     count |-> rest.count + (IF r.raised THEN 0 ELSE 1)]

RemoveAt(q, i) == SubSeq(q, 1, i - 1) \o SubSeq(q, i + 1, Len(q))

OpOf(via) ==
    CASE via = "direct" -> "execute_schedule"
      [] via = "inline" -> "run_now"
      [] via = "background" -> "background_run"
      [] OTHER -> "poll_task"

\* What ends with the execution: it leaves inflight, and _execute_and_cleanup's
\* finally discards the id of an execution the polling loop launched
EndExecution(s, i, res, movies) ==
    /\ inflight' = [inflight EXCEPT ![s] = RemoveAt(@, i)]
    /\ executing' = IF inflight[s][i].via = "poll" THEN executing \ {s} ELSE executing
    /\ ret' = RetWith(OpOf(inflight[s][i].via), s, res, movies)

\* The candidates of `selected` that have a torrent of the schedule's quality
Matching(selected) == {selected[k].id : k \in {x \in DOMAIN selected : selected[x].hasQ}}

\* execute_schedule from browse_yts answering `movies` to its return; failing: the
\* candidates whose attachment to the engine raises
FinishExecution(s, e, movies, failing) ==
    IF movies = <<>>
    THEN LET u == UpdateNextRun(schedules, schedLogs, s, now, "completed (no movies found)")
         IN /\ schedules' = u.schedules
            /\ schedLogs' = u.schedLogs
            /\ UNCHANGED jobVars
    ELSE LET selected == SelectMovies(movies, e.max_downloads)
             d == DownloadMovies(JobState, selected, failing)
             results == [movies_found |-> Len(movies),
                         movies_selected |-> Len(selected),
                         downloads_started |-> d.count]
             logged == [schedLogs EXCEPT ![s] = LogAppend(@, LogEntry("completed", results))]
             u == UpdateNextRun(schedules, logged, s, now, "completed")
         IN /\ SetJobState(d.js)
            /\ schedules' = u.schedules
            /\ schedLogs' = u.schedLogs
            /\ UNCHANGED alerts

\* browse_yts answers and execute_schedule runs to its return; n: longest answer
ExecuteFinish(s, i, n) ==
    /\ proc = "up"
    /\ i \in DOMAIN inflight[s]
    /\ \E movies \in Catalogs(n, FreshIds(n, DOMAIN torrents)) :
          \E failing \in SUBSET Matching(SelectMovies(movies, inflight[s][i].max_downloads)) :
             /\ FinishExecution(s, inflight[s][i], movies, failing)
             /\ EndExecution(s, i, "true", movies)
    /\ UNCHANGED <<proc, now, created, bgPending, pollPc, pollRows>>

\* browse_yts raises: execute_schedule's except branch
ExecuteFail(s, i) ==
    /\ proc = "up"
    /\ i \in DOMAIN inflight[s]
    /\ LET u == UpdateNextRun(schedules, schedLogs, s, now, "error: browse failed")
       IN /\ schedules' = u.schedules
          /\ schedLogs' = [u.schedLogs EXCEPT ![s] = LogAppend(@, LogEntry("error", NoResults))]
    /\ EndExecution(s, i, "false", NoArg)
    /\ UNCHANGED <<proc, now, created, bgPending, pollPc, pollRows, jobVars>>

\* The clock
Tick ==
    /\ now < MaxTime
    /\ now' = now + 1
    /\ UNCHANGED <<proc, schedules, schedLogs, executing, created, bgPending, inflight,
                   pollPc, pollRows, ret, jobVars>>

\* ------------------------------------------------------ the Job Orchestrator
JobIds == {"t1"}

\* settings.max_active_downloads, as the environment of this deployment sets it
\* (MAX_ACTIVE_DOWNLOADS=1); main.py computes the cap and logs it
max_active_downloads == 1

Alert(type, h, arg) == [type |-> type, handle |-> h, arg |-> arg]

\* for torrent_id, (handle, _) in self.active_torrents.items(): if handle == alert.handle
JobsOfHandle(js, h) == {id \in DOMAIN js.active : js.active[id] = h}

\* state_changed_alert's state_map
StateMapName(ordinal) ==
    CASE ordinal = CheckingFiles -> "checking"
      [] ordinal = DownloadingMetadata -> "downloading_metadata"
      [] ordinal = Downloading -> "downloading"
      [] ordinal = Finished -> "finished"
      [] ordinal = Seeding -> "seeding"
      [] ordinal = Allocating -> "allocating"
      [] OTHER -> "checking"

\* TorrentManager._handle_alert
HandleAlert(js, a) ==
    LET ids == JobsOfHandle(js, a.handle) \cap DOMAIN js.torrents
    IN IF ids = {} THEN js
       ELSE LET id == CHOOSE x \in ids : TRUE
                row == js.torrents[id]
            IN CASE a.type = "finished" ->
                      [js EXCEPT !.torrents[id].state = "finished",
                                 !.torrentLogs = CountLog(js.torrentLogs, id)]
                 [] a.type = "save_resume" ->
                      [js EXCEPT !.torrents[id].resume_data = <<a.arg>>]
                 [] a.type = "error" ->
                      [js EXCEPT !.torrents[id].state = "error",
                                 !.torrents[id].error_message = a.arg,
                                 !.torrentLogs = CountLog(js.torrentLogs, id)]
                 [] a.type = "metadata" ->
                      IF row.state = "downloading_metadata"
                      THEN [js EXCEPT !.torrents[id].state = "downloading",
                                      !.torrentLogs = CountLog(js.torrentLogs, id)]
                      ELSE js
                 [] a.type = "state_changed" ->
                      LET new_state == StateMapName(a.arg)
                      IN IF row.state = new_state THEN js
                         ELSE [js EXCEPT
                                 !.torrents[id].state = new_state,
                                 !.torrentLogs =
                                     IF new_state \in {"checking", "downloading", "finished", "seeding"}
                                     THEN CountLog(js.torrentLogs, id) ELSE js.torrentLogs]
                 [] OTHER -> js

\* for alert in alerts: self._handle_alert(alert)
RECURSIVE HandleAlerts(_, _)
HandleAlerts(js, queue) ==
    IF queue = <<>> THEN js ELSE HandleAlerts(HandleAlert(js, Head(queue)), Tail(queue))

\* The states _refresh_active_torrents and find_active leave out
InactiveStates == {"error", "finished", "stopped"}

\* The prune left out: active_torrents stays as it is
KeepActiveTorrents(js) == js

\* TorrentManager._refresh_active_torrents: drop from active_torrents what the
\* repository does not hold as active
RefreshActiveTorrents(js) ==
    LET active_ids == {id \in DOMAIN js.torrents : js.torrents[id].state \notin InactiveStates}
    IN [js EXCEPT !.active = [id \in DOMAIN js.active \cap active_ids |-> js.active[id]]]

\* The poll left out: the row stays as the alerts left it
KeepRow(js, id, row) == row

\* The status loop of _update_torrents_status for one attached job
StatusRow(js, id, row) ==
    LET status == js.session[js.active[id]]
    IN [row EXCEPT !.state = StateName(status.state), !.progress = Percent(status.progress)]

StatusLogs(js, id, logging) ==
    LET status == js.session[js.active[id]]
        n1 == IF id \in logging THEN CountLog(js.torrentLogs, id) ELSE js.torrentLogs
    IN IF status.state = Finished THEN CountLog(n1, id)[id] ELSE n1[id]

\* str(e) of the exception a commit raises
CommitError == "commit failed"

\* except Exception as e, in the status loop, for the jobs whose commit of the status
\* raised: the session is rolled back, the row is marked with the error in a session
\* of its own, and the job is popped from active_torrents
StatusFailed(js, failing) ==
    [js EXCEPT
       !.torrents = [id \in DOMAIN js.torrents |->
                       IF id \in failing
                       THEN [js.torrents[id] EXCEPT !.state = "error",
                                                    !.error_message = CommitError]
                       ELSE js.torrents[id]],
       !.torrentLogs = [id \in DOMAIN js.torrentLogs |->
                       IF id \in failing THEN CountLog(js.torrentLogs, id)[id]
                       ELSE js.torrentLogs[id]],
       !.active = [id \in DOMAIN js.active \ failing |-> js.active[id]]]

\* for torrent_id, (handle, metadata) in list(self.active_torrents.items()): ...
\* `failing` are the jobs for which the commit of the status raises
UpdateStatuses(js, logging, failing) ==
    LET ids == (DOMAIN js.active \cap DOMAIN js.torrents) \ failing
        stored == [js EXCEPT
          !.torrents = [id \in DOMAIN js.torrents |->
                          IF id \in ids THEN StatusRow(js, id, js.torrents[id])
                          ELSE js.torrents[id]],
          !.torrentLogs = [id \in DOMAIN js.torrentLogs |->
                          IF id \in ids THEN StatusLogs(js, id, logging)
                          ELSE js.torrentLogs[id]]]
    IN StatusFailed(stored, failing \cap DOMAIN js.active \cap DOMAIN js.torrents)

\* One iteration of _update_torrents_status: prune, drain the alerts, poll every
\* attached job; `logging` are the jobs whose 30 s log is due
TickResult(js, queue, logging, failing) ==
    UpdateStatuses(HandleAlerts(RefreshActiveTorrents(js), queue), logging, failing)

\* A tick in which every commit succeeds
UpdateTick ==
    /\ proc = "up"
    /\ update_task = "running"
    /\ \E logging \in SUBSET DOMAIN active :
          SetJobState(TickResult(JobState, alerts, logging, {}))
    /\ alerts' = <<>>
    /\ UNCHANGED <<schedVars, ret>>

\* A tick in which the commit of the status of the jobs `failing` raises
FailingTick(failing) ==
    /\ proc = "up"
    /\ update_task = "running"
    /\ failing # {}
    /\ failing \subseteq DOMAIN RefreshActiveTorrents(JobState).active \cap DOMAIN torrents
    /\ \E logging \in SUBSET DOMAIN active :
          SetJobState(TickResult(JobState, alerts, logging, failing))
    /\ alerts' = <<>>
    /\ UNCHANGED <<schedVars, ret>>

OpResult(js, queue, res) == [js |-> js, alerts |-> queue, res |-> res]

\* The row of job id, when the repository has it, gets the state and one more log entry
MarkRow(js, id, state) ==
    IF id \in DOMAIN js.torrents
    THEN [js EXCEPT !.torrents[id].state = state, !.torrentLogs = CountLog(js.torrentLogs, id)]
    ELSE js

\* TorrentManager.pause_torrent
PauseTorrent(js, queue, id) ==
    IF id \in DOMAIN js.active
    THEN OpResult(MarkRow([js EXCEPT !.session[js.active[id]].paused = TRUE], id, "paused"),
                  queue, "true")
    ELSE OpResult(js, queue, "false")

\* TorrentManager.resume_torrent; attachFails: _add_torrent raises
ResumeTorrent(js, queue, id, attachFails) ==
    IF id \in DOMAIN js.active
    THEN OpResult(MarkRow([js EXCEPT !.session[js.active[id]].paused = FALSE], id, "downloading"),
                  queue, "true")
    ELSE IF id \in DOMAIN js.torrents /\ js.torrents[id].state = "paused"
    THEN IF attachFails
         THEN OpResult(js, queue, "false")
         ELSE OpResult(MarkRow(AttachTorrent(js, id, js.torrents[id].resume_data), id, "downloading"),
                       queue, "true")
    ELSE OpResult(js, queue, "false")

\* session.remove_torrent(handle)
SessionRemove(sess, h) == [x \in DOMAIN sess \ {h} |-> sess[x]]

\* self.active_torrents.pop(torrent_id)
ActivePop(act, id) == [x \in DOMAIN act \ {id} |-> act[x]]

\* The blob the engine makes of a torrent
ResumeBlob(status) == status.progress

\* TorrentManager.stop_torrent; answered: the engine posts the save_resume_data alert
\* within the 0.5 s the call sleeps
StopTorrent(js, queue, id, answered) ==
    IF id \in DOMAIN js.active
    THEN LET h == js.active[id]
             posted == IF answered
                       THEN Append(queue, Alert("save_resume", h, ResumeBlob(js.session[h])))
                       ELSE queue
             detached == [js EXCEPT !.session = SessionRemove(js.session, h),
                                    !.active = ActivePop(js.active, id)]
         IN OpResult(MarkRow(detached, id, "stopped"), posted, "true")
    ELSE OpResult(js, queue, "false")

\* CRUDMixin.delete: the row has a deleted_at column, so it is stamped, not deleted
SoftDelete(rows, id) == [rows EXCEPT ![id].deleted = TRUE]

\* TorrentManager.remove_torrent
RemoveTorrent(js, queue, id, delete_files) ==
    LET detached == IF id \in DOMAIN js.active
                    THEN [js EXCEPT !.session = SessionRemove(js.session, js.active[id]),
                                    !.active = ActivePop(js.active, id)]
                    ELSE js
        logged == IF id \in DOMAIN js.torrents
                  THEN [detached EXCEPT !.torrentLogs = CountLog(detached.torrentLogs, id)]
                  ELSE detached
    IN IF id \in DOMAIN js.torrents /\ delete_files
       THEN OpResult([logged EXCEPT !.torrents = SoftDelete(logged.torrents, id)], queue, "true")
       ELSE OpResult(logged, queue, "true")

\* A lifecycle call of the API on the orchestrator
JobCall(op, id, arg, r) ==
    /\ proc = "up"
    /\ SetJobState(r.js)
    /\ alerts' = r.alerts
    /\ ret' = RetWith(op, id, r.res, arg)
    /\ UNCHANGED schedVars

CanAttach(id) == GenOf(JobState, id) < MaxHandles

\* POST /torrents: add_torrent
CreateJob(id) ==
    /\ CanAttach(id)
    /\ \E attachFails \in BOOLEAN :
          LET r == AddTorrent(JobState, id, attachFails)
          IN JobCall("add_torrent", id, NoArg, OpResult(r.js, alerts, IF r.raised THEN "false" ELSE "true"))

Pause(id) ==
    /\ id \in JobIds
    /\ JobCall("pause", id, NoArg, PauseTorrent(JobState, alerts, id))

Resume(id) ==
    /\ CanAttach(id)
    /\ \E attachFails \in BOOLEAN : JobCall("resume", id, NoArg, ResumeTorrent(JobState, alerts, id, attachFails))

Stop(id) ==
    \E answered \in BOOLEAN :
       /\ answered => Len(alerts) < MaxAlerts
       /\ JobCall("stop", id, NoArg, StopTorrent(JobState, alerts, id, answered))

Remove(id, delete_files) ==
    /\ id \in JobIds
    /\ JobCall("remove", id, <<delete_files>>, RemoveTorrent(JobState, alerts, id, delete_files))

\* TorrentManager.get_torrent_status: get_by_id does not look at deleted_at
GetStatus(rows, id) == IF id \in DOMAIN rows THEN <<rows[id]>> ELSE <<>>

\* TorrentManager.get_all_torrents: get_all does not look at deleted_at
ListStatuses(rows) == DOMAIN rows

\* The rows of torrent_logs of job id
LogsOf(logs, id) == IF id \in DOMAIN logs THEN logs[id] ELSE 0

\* ------------------------------------------------------------ the event loop
\* The tasks of the event loop that work on a job: the reconciliation loop and two
\* requests of POST /action/{torrent_id}
Callers == {"call1", "call2"}
Tasks == {"tick"} \cup Callers

\* No handler has begun. holder is the task the loop runs; pc is where a task is in
\* its handler; pending is what a request has yet to write to the repository
NoPending == <<>>
IdleLoop ==
    [holder |-> NULL,
     pc |-> [t \in Tasks |-> "idle"],
     pending |-> [c \in Callers |-> NoPending],
     live |-> 0]

\* The loop of a process whose startup_event has or has not started the
\* reconciliation task
LoopAtStart(task) == [IdleLoop EXCEPT !.live = IF task = "running" THEN 1 ELSE 0]

\* Every position is an await: the loop may run another task after any step
AwaitsEverywhere(task, pc) == TRUE

\* The positions at which a handler awaits before it is over: pause_torrent,
\* resume_torrent, stop_torrent (time.sleep blocks the loop) and remove_torrent are
\* plain functions that torrent_action calls, and an iteration of
\* _update_torrents_status awaits only in its last statement
Awaits(task, pc) == FALSE

\* The loop runs a step of `task` when it runs nothing else
LoopFree(task) == coro.holder \in {NULL, task}

\* After a step of `task` that leaves it at pc
Holder(task, pc) == IF pc = "idle" \/ Awaits(task, pc) THEN NULL ELSE task

LifecycleOps == {"pause", "resume", "stop", "remove"}

\* What torrent_action calls; flag is what the call meets or is given: the attach
\* fails (resume), the engine answers with resume data (stop), delete_files (remove)
LifecycleResult(op, js, queue, id, flag) ==
    CASE op = "pause" -> PauseTorrent(js, queue, id)
      [] op = "resume" -> ResumeTorrent(js, queue, id, flag)
      [] op = "stop" -> StopTorrent(js, queue, id, flag)
      [] op = "remove" -> RemoveTorrent(js, queue, id, flag)

\* The first part of a lifecycle call: the calls on the handle, the session and
\* active_torrents; the block `with get_db() as db` is still to come
CallEngine(c, op, id, flag) ==
    /\ proc = "up"
    /\ id \in JobIds
    /\ coro.pc[c] = "idle"
    /\ LoopFree(c)
    /\ op = "resume" => CanAttach(id)
    /\ (op = "stop" /\ flag) => Len(alerts) < MaxAlerts
    /\ LET r == LifecycleResult(op, JobState, alerts, id, flag)
       IN /\ session' = r.js.session
          /\ active' = r.js.active
          /\ handleGen' = r.js.handleGen
          /\ alerts' = r.alerts
          /\ coro' = [coro EXCEPT
                        !.holder = Holder(c, "store"),
                        !.pc[c] = "store",
                        !.pending[c] = <<[op |-> op, id |-> id, res |-> r.res,
                                          torrents |-> r.js.torrents,
                                          torrentLogs |-> r.js.torrentLogs]>>]
    /\ UNCHANGED <<schedVars, ret, torrents, torrentLogs, update_task, content>>

\* The second part: the block `with get_db() as db`, and the return
CallStore(c) ==
    /\ proc = "up"
    /\ coro.pc[c] = "store"
    /\ LoopFree(c)
    /\ LET todo == coro.pending[c][1]
       IN /\ torrents' = todo.torrents
          /\ torrentLogs' = todo.torrentLogs
          /\ ret' = Ret(todo.op, todo.id, todo.res)
    /\ coro' = [coro EXCEPT !.holder = Holder(c, "idle"), !.pc[c] = "idle",
                            !.pending[c] = NoPending]
    /\ UNCHANGED <<schedVars, active, session, handleGen, alerts, update_task, content>>

\* The first part of an iteration of _update_torrents_status: the prune and the alerts
TickAlerts ==
    /\ proc = "up"
    /\ update_task = "running"
    /\ coro.pc["tick"] = "idle"
    /\ LoopFree("tick")
    /\ LET js == HandleAlerts(RefreshActiveTorrents(JobState), alerts)
       IN /\ torrents' = js.torrents
          /\ torrentLogs' = js.torrentLogs
          /\ active' = js.active
    /\ alerts' = <<>>
    /\ coro' = [coro EXCEPT !.holder = Holder("tick", "status"), !.pc["tick"] = "status"]
    /\ UNCHANGED <<schedVars, ret, session, handleGen, update_task, content>>

\* The second part: the status loop, up to await asyncio.sleep(1)
TickStatus ==
    /\ proc = "up"
    /\ coro.pc["tick"] = "status"
    /\ LoopFree("tick")
    /\ \E logging \in SUBSET DOMAIN active :
          LET js == UpdateStatuses(JobState, logging, {})
          IN /\ torrents' = js.torrents
             /\ torrentLogs' = js.torrentLogs
             /\ active' = js.active
    /\ coro' = [coro EXCEPT !.holder = Holder("tick", "idle"), !.pc["tick"] = "idle"]
    /\ UNCHANGED <<schedVars, ret, session, handleGen, alerts, update_task, content>>

\* add_torrent, called when the loop runs nothing else
LoopCreateJob(id) == coro.holder = NULL /\ CreateJob(id)

\* ------------------------------------------------------------- status records
\* class TorrentState(str, Enum): the members, each with its name and its value
TorrentState ==
    <<[name |-> "QUEUED", value |-> "queued"],
      [name |-> "CHECKING", value |-> "checking"],
      [name |-> "DOWNLOADING_METADATA", value |-> "downloading_metadata"],
      [name |-> "DOWNLOADING", value |-> "downloading"],
      [name |-> "FINISHED", value |-> "finished"],
      [name |-> "SEEDING", value |-> "seeding"],
      [name |-> "ALLOCATING", value |-> "allocating"],
      [name |-> "CHECKING_FASTRESUME", value |-> "checking_fastresume"],
      [name |-> "PAUSED", value |-> "paused"],
      [name |-> "ERROR", value |-> "error"],
      [name |-> "STOPPED", value |-> "stopped"]>>

\* The values a member of TorrentState has
TorrentStateValues == {TorrentState[k].value : k \in DOMAIN TorrentState}

\* The lookup left out: whatever the value, the first member
FirstMember(value) == TorrentState[1]

\* TorrentState(value): the member that has the value
TorrentStateOf(value) ==
    TorrentState[CHOOSE k \in DOMAIN TorrentState : TorrentState[k].value = value]

\* Torrent.to_status
ToStatus(id, row) ==
    [id |-> id,
     state |-> TorrentStateOf(row.state),
     progress |-> row.progress,
     error_message |-> row.error_message]

\* Torrent.update_from_status
UpdateFromStatus(row, status) ==
    [row EXCEPT !.state = status.state.value,
                !.progress = status.progress,
                !.error_message = status.error_message]

\* to_status of the record of job id, then update_from_status of the record with it
RoundTrip(id) ==
    /\ id \in DOMAIN torrents
    /\ LET status == ToStatus(id, torrents[id])
       IN /\ torrents' = [torrents EXCEPT ![id] = UpdateFromStatus(@, status)]
          /\ ret' = RetWith("update_from_status", id, "true", <<status>>)
    /\ UNCHANGED <<schedVars, torrentLogs, active, session, handleGen, alerts, update_task, content, coro>>

\* ------------------------------------------------------------------ streaming
VIDEO_EXTENSIONS == <<".mp4", ".mkv", ".avi", ".mov", ".webm", ".ogv", ".wmv", ".flv">>

\* str.lower(), on the extensions the torrents have here
Lower(ext) ==
    CASE ext = ".MKV" -> ".mkv"
      [] OTHER -> ext

\* TorrentManager._is_video_file
IsVideoFile(file) == \E k \in DOMAIN VIDEO_EXTENSIONS : Lower(file.ext) = VIDEO_EXTENSIONS[k]

\* The test left out: the handle always counts as having its metadata
AlwaysMetadata(status) == TRUE

\* handle.has_metadata(): a magnet has none until it has downloaded it
HasMetadata(status) == status.state # DownloadingMetadata

\* handle.file_progress(): the bytes of each file the engine has
FileProgress(files, status) ==
    [i \in DOMAIN files |-> (files[i].size * status.progress) \div ProgressSteps]

\* get_video_file_info's loop from file i on: the position of the largest video file
\* so far (0: none) and its size
RECURSIVE LargestVideo(_, _, _, _)
LargestVideo(files, i, index, size) ==
    IF i > Len(files) THEN index
    ELSE IF IsVideoFile(files[i]) /\ files[i].size > size
         THEN LargestVideo(files, i + 1, i, files[i].size)
         ELSE LargestVideo(files, i + 1, index, size)

NoVideo == <<>>

\* TorrentManager.get_video_file_info: NoVideo, or the one record it returns (index
\* counted from 0 as in the source)
GetVideoFileInfo(js, files, id) ==
    IF id \notin DOMAIN js.active THEN NoVideo
    ELSE LET status == js.session[js.active[id]]
         IN IF ~HasMetadata(status) THEN NoVideo
            ELSE LET k == LargestVideo(files, 1, 0, 0)
                     file_progress == FileProgress(files, status)
                 IN IF k >= 1 /\ k <= Len(file_progress)
                    THEN <<[index |-> k - 1,
                            path |-> files[k].ext,
                            size |-> files[k].size,
                            downloaded |-> file_progress[k],
                            progress |-> IF files[k].size > 0
                                         THEN (file_progress[k] * 100) \div files[k].size
                                         ELSE 0]>>
                    ELSE NoVideo

\* GET /{torrent_id}/video asks the orchestrator for the video file
GetPrimaryVideoFile(id) ==
    /\ proc = "up"
    /\ LET info == GetVideoFileInfo(JobState, content[id], id)
       IN ret' = RetWith("get_video_file_info", id, IF info = NoVideo THEN "none" ELSE "found", info)
    /\ UNCHANGED <<schedVars, jobVars>>

\* TorrentManager.prioritize_video_files
PrioritizeVideoFiles(js, queue, files, id) ==
    IF id \notin DOMAIN js.active THEN OpResult(js, queue, "false")
    ELSE LET h == js.active[id]
         IN IF ~HasMetadata(js.session[h]) THEN OpResult(js, queue, "false")
            ELSE LET file_priorities == [i \in DOMAIN files |-> IF IsVideoFile(files[i]) THEN 7 ELSE 1]
                     sequential == [js EXCEPT !.session[h].sequential = TRUE]
                 IN IF file_priorities = <<>>
                    THEN OpResult(sequential, queue, "true")
                    ELSE LET prioritized == [sequential EXCEPT !.session[h].priorities = file_priorities]
                         IN OpResult(IF id \in DOMAIN js.torrents
                                     THEN [prioritized EXCEPT !.torrents[id].streaming_optimized = TRUE]
                                     ELSE prioritized,
                                     queue, "true")

\* PrioritizeStreaming
Prioritize(id) ==
    /\ id \in JobIds
    /\ JobCall("prioritize", id, NoArg, PrioritizeVideoFiles(JobState, alerts, content[id], id))

\* ------------------------------------------------------------------ the engine
CanPost(n) == Len(alerts) + n <= MaxAlerts

EngineStep(h, status, posted) ==
    /\ proc = "up"
    /\ session' = [session EXCEPT ![h] = status]
    /\ alerts' = alerts \o posted
    /\ UNCHANGED <<schedVars, ret, torrents, torrentLogs, active, handleGen, update_task, content, coro>>

Running(h, state) == h \in DOMAIN session /\ session[h].state = state /\ ~session[h].paused

\* The metadata of a magnet arrives: metadata_received_alert, then the download begins
EngineMetadata(h) ==
    /\ Running(h, DownloadingMetadata)
    /\ CanPost(2)
    /\ EngineStep(h, [session[h] EXCEPT !.state = Downloading],
                  <<Alert("metadata", h, NULL), Alert("state_changed", h, Downloading)>>)

\* The resume data is checked: the download goes on, or is found complete
EngineChecked(h) ==
    /\ Running(h, CheckingResumeData)
    /\ CanPost(2)
    /\ IF session[h].progress = ProgressSteps
       THEN EngineStep(h, [session[h] EXCEPT !.state = Finished],
                       <<Alert("state_changed", h, Finished), Alert("finished", h, NULL)>>)
       ELSE EngineStep(h, [session[h] EXCEPT !.state = Downloading],
                       <<Alert("state_changed", h, Downloading)>>)

\* Pieces arrive; with the last one the torrent is finished
EngineProgress(h) ==
    /\ Running(h, Downloading)
    /\ CanPost(2)
    /\ IF session[h].progress + 1 = ProgressSteps
       THEN EngineStep(h, [session[h] EXCEPT !.state = Finished, !.progress = ProgressSteps],
                       <<Alert("state_changed", h, Finished), Alert("finished", h, NULL)>>)
       ELSE EngineStep(h, [session[h] EXCEPT !.progress = @ + 1], <<>>)

\* A finished torrent seeds
EngineSeeds(h) ==
    /\ Running(h, Finished)
    /\ CanPost(1)
    /\ EngineStep(h, [session[h] EXCEPT !.state = Seeding], <<Alert("state_changed", h, Seeding)>>)

\* torrent_error_alert: the engine stops the torrent on a disk error
EngineError(h) ==
    /\ h \in DOMAIN session /\ ~session[h].paused
    /\ CanPost(1)
    /\ EngineStep(h, [session[h] EXCEPT !.paused = TRUE], <<Alert("error", h, "disk error")>>)

\* -------------------------------------------------------------- the process
\* The outer except alone: the loop ends with the first row whose _add_torrent raises
RECURSIVE LoadUntilFailure(_, _, _)
LoadUntilFailure(js, rows, failing) ==
    IF rows = <<>> THEN js
    ELSE LET id == Head(rows)
         IN IF id \in failing
            THEN js
            ELSE LoadUntilFailure(AttachTorrent(js, id, js.torrents[id].resume_data),
                                  Tail(rows), failing)

\* TorrentManager._load_saved_torrents over the rows find_active returned, in the
\* query's order; failing: the rows whose _add_torrent raises
RECURSIVE LoadSavedTorrents(_, _, _)
LoadSavedTorrents(js, rows, failing) ==
    IF rows = <<>> THEN js
    ELSE LET id == Head(rows)
             loaded == IF id \in failing
                       THEN [js EXCEPT !.torrents[id].state = "error",
                                       !.torrents[id].error_message = "attach failed"]
                       ELSE AttachTorrent(js, id, js.torrents[id].resume_data)
         IN LoadSavedTorrents(loaded, Tail(rows), failing)

\* The orders in which a query without ORDER BY may return the rows S
Orders(S) ==
    {q \in [1..Cardinality(S) -> S] : \A i, j \in DOMAIN q : i # j => q[i] # q[j]}

\* Torrent.find_active
FindActive(rows) == {id \in DOMAIN rows : rows[id].state \notin InactiveStates}

\* The process starts: TorrentManager(), startup_event
Startup(cron_enabled) ==
    /\ proc = "down"
    /\ proc' = "up"
    /\ \E rows \in Orders(FindActive(torrents)), failing \in SUBSET FindActive(torrents) :
          SetJobState(StartUpdateTask(LoadSavedTorrents(JobState, rows, failing)))
    /\ pollPc' = IF cron_enabled THEN "sleeping" ELSE "stopped"
    /\ ret' = Ret("startup", NULL, "true")
    /\ UNCHANGED <<now, schedules, schedLogs, executing, created, bgPending, inflight,
                   pollRows, alerts>>

\* The update left out: the running schedules stay as they are
LeaveRunning(scheds, logs) == [schedules |-> scheds, schedLogs |-> logs]

\* shutdown's update of the rows with last_run_status == "running": each is marked
\* interrupted and gets a log entry: [schedules, schedLogs]
MarkInterrupted(scheds, logs) ==
    LET running == {s \in DOMAIN scheds : scheds[s].status = "running"}
    IN [schedules |-> [s \in DOMAIN scheds |->
                         IF s \in running THEN [scheds[s] EXCEPT !.status = "interrupted"]
                         ELSE scheds[s]],
        schedLogs |-> [s \in DOMAIN logs |->
                         IF s \in running
                         THEN LogAppend(logs[s], LogEntry("interrupted", NoResults))
                         ELSE logs[s]]]

\* ScheduleManager.shutdown (shutdown_event, cron enabled)
SchedulerShutdown ==
    /\ proc = "up"
    /\ pollPc # "stopped"
    /\ proc' = "stopping"
    /\ pollPc' = "stopped"
    /\ pollRows' = <<>>
    /\ created' = [s \in ScheduleIds |-> 0]
    /\ inflight' = [s \in ScheduleIds |->
                      SelectSeq(inflight[s], LAMBDA e : e.via # "poll")]
    /\ LET m == MarkInterrupted(schedules, schedLogs)
       IN /\ schedules' = m.schedules
          /\ schedLogs' = m.schedLogs
    /\ executing' = {}
    /\ ret' = Ret("scheduler_shutdown", NULL, "true")
    /\ UNCHANGED <<now, bgPending, jobVars>>

\* The ways an awaited shutdown ends other than by finishing: asyncio.wait_for gives
\* it up after the grace period, or it raises
Failures == {"timeout", "error"}

\* The exception leaves shutdown_event: nothing more is shut down
ShutdownAborted(outcome) == "aborted"

\* shutdown_event after a shutdown that did not finish: except asyncio.TimeoutError
\* and except Exception log a warning or an error, and the next service is shut down
ShutdownGoesOn(outcome) == "stopping"

\* ScheduleManager.shutdown that does not finish. Given up while it awaits the
\* cancelled polling task, it has marked no schedule and cleared no set; raising in
\* close_thread_sessions, it has done all the rest
SchedulerShutdownFails(outcome) ==
    /\ proc = "up"
    /\ pollPc # "stopped"
    /\ proc' = ShutdownGoesOn(outcome)
    /\ pollPc' = "stopped"
    /\ pollRows' = <<>>
    /\ IF outcome = "timeout"
       THEN UNCHANGED <<created, inflight, schedules, schedLogs, executing>>
       ELSE /\ created' = [s \in ScheduleIds |-> 0]
            /\ inflight' = [s \in ScheduleIds |->
                              SelectSeq(inflight[s], LAMBDA e : e.via # "poll")]
            /\ LET m == MarkInterrupted(schedules, schedLogs)
               IN /\ schedules' = m.schedules
                  /\ schedLogs' = m.schedLogs
            /\ executing' = {}
    /\ ret' = Ret("scheduler_shutdown", NULL, outcome)
    /\ UNCHANGED <<now, bgPending, jobVars>>

\* The requests of TorrentManager.shutdown: every attached job is marked paused
RECURSIVE PauseForShutdown(_, _)
PauseForShutdown(js, ids) ==
    IF ids = {} THEN js
    ELSE LET id == CHOOSE x \in ids : TRUE
         IN PauseForShutdown(MarkRow(js, id, "paused"), ids \ {id})

\* The save_resume_data alerts the engine posts within the 1 s the shutdown sleeps
RECURSIVE ResumeAlerts(_, _)
ResumeAlerts(js, ids) ==
    IF ids = {} THEN <<>>
    ELSE LET id == CHOOSE x \in ids : TRUE
             h == js.active[id]
         IN <<Alert("save_resume", h, ResumeBlob(js.session[h]))>> \o ResumeAlerts(js, ids \ {id})

\* TorrentManager.shutdown (shutdown_event)
ManagerShutdown ==
    /\ \/ proc = "stopping"
       \/ proc = "up" /\ pollPc = "stopped"
    /\ proc' = "stopped"
    /\ \E answered \in SUBSET DOMAIN active :
          LET marked == PauseForShutdown(JobState, DOMAIN active)
              queue == alerts \o ResumeAlerts(JobState, answered)
          IN SetJobState(CancelUpdateTask(HandleAlerts(marked, queue)))
    /\ alerts' = <<>>
    /\ ret' = Ret("manager_shutdown", NULL, "true")
    /\ UNCHANGED <<now, schedules, schedLogs, executing, created, bgPending, inflight,
                   pollPc, pollRows>>

\* TorrentManager.shutdown that does not finish. Given up while it awaits the
\* cancelled reconciliation task, it has marked no job; raising while it handles the
\* alerts it popped, it has marked the jobs and handled none
ManagerShutdownFails(outcome) ==
    /\ proc = "stopping"
    /\ proc' = "stopped"
    /\ IF outcome = "timeout"
       THEN /\ SetJobState(CancelUpdateTask(JobState))
            /\ UNCHANGED alerts
       ELSE /\ SetJobState(CancelUpdateTask(PauseForShutdown(JobState, DOMAIN active)))
            /\ alerts' = <<>>
    /\ ret' = Ret("manager_shutdown", NULL, outcome)
    /\ UNCHANGED <<now, schedules, schedLogs, executing, created, bgPending, inflight,
                   pollPc, pollRows>>

\* The process ends, by exit after the shutdown or by a kill: its memory is gone
ProcessExit ==
    /\ proc # "down"
    /\ proc' = "down"
    /\ executing' = {}
    /\ created' = [s \in ScheduleIds |-> 0]
    /\ bgPending' = [s \in ScheduleIds |-> 0]
    /\ inflight' = [s \in ScheduleIds |-> <<>>]
    /\ pollPc' = "stopped"
    /\ pollRows' = <<>>
    /\ active' = <<>>
    /\ session' = <<>>
    /\ handleGen' = <<>>
    /\ alerts' = <<>>
    /\ update_task' = "none"
    /\ coro' = IdleLoop
    /\ ret' = Ret("exit", NULL, "true")
    /\ UNCHANGED <<now, schedules, schedLogs, torrents, torrentLogs, content>>

\* The process exits when shutdown_event is over
ExitAfterShutdown == proc = "stopped" /\ ProcessExit

\* ------------------------------------------------------- the specifications
\* The process as constructed, over an empty database; cron enabled
Init ==
    /\ proc = "up"
    /\ now = 0
    /\ schedules = <<>>
    /\ schedLogs = <<>>
    /\ executing = {}
    /\ created = [s \in ScheduleIds |-> 0]
    /\ bgPending = [s \in ScheduleIds |-> 0]
    /\ inflight = [s \in ScheduleIds |-> <<>>]
    /\ pollPc = "sleeping"
    /\ pollRows = <<>>
    /\ ret = Ret("startup", NULL, "true")
    /\ torrents = <<>>
    /\ torrentLogs = <<>>
    /\ active = <<>>
    /\ session = <<>>
    /\ handleGen = <<>>
    /\ alerts = <<>>
    /\ update_task = "running"
    /\ content = [id \in TorrentIds |-> DefaultFiles]
    /\ coro = LoopAtStart(update_task)

Next ==
    \/ \E s \in ScheduleIds, period \in 1..MaxPeriod, max_downloads \in 1..MaxPollDownloads,
          enabled \in BOOLEAN : AddSchedule(s, period, max_downloads, enabled)
    \/ \E s \in ScheduleIds : ExecuteSchedule(s)
    \/ \E s \in ScheduleIds, background \in BOOLEAN : RunNow(s, background)
    \/ \E s \in ScheduleIds : BackgroundRun(s)
    \/ PollWake
    \/ PollResume
    \/ \E s \in ScheduleIds : TaskStart(s)
    \/ \E s \in ScheduleIds, i \in 1..2 : ExecuteFinish(s, i, MaxPollCandidates)
    \/ \E s \in ScheduleIds, i \in 1..2 : ExecuteFail(s, i)
    \/ Tick
    \/ SchedulerShutdown
    \/ ManagerShutdown
    \/ ProcessExit
    \/ Startup(TRUE)

Spec == Init /\ [][Next]_vars

\* One firing: a process started with cron disabled over a database in which an
\* earlier run left the schedule interrupted, and possibly a finished job t1
InitFiring ==
    /\ proc = "up"
    /\ now = 0
    /\ \E max_downloads \in 1..MaxDownloads :
          schedules = [s \in ScheduleIds |->
                         [NewSchedule(1, max_downloads, TRUE) EXCEPT !.status = "interrupted"]]
    /\ schedLogs = [s \in ScheduleIds |-> LogAppend(<<LogEntry("manual_run", NoResults)>>,
                                                    LogEntry("interrupted", NoResults))]
    /\ executing = {}
    /\ created = [s \in ScheduleIds |-> 0]
    /\ bgPending = [s \in ScheduleIds |-> 0]
    /\ inflight = [s \in ScheduleIds |-> <<>>]
    /\ pollPc = "stopped"
    /\ pollRows = <<>>
    /\ ret = Ret("startup", NULL, "true")
    /\ \E before \in BOOLEAN :
          /\ torrents = IF before
                        THEN ("t1" :> [NewTorrentRow EXCEPT !.state = "finished", !.progress = 100])
                        ELSE <<>>
          /\ torrentLogs = IF before THEN ("t1" :> MaxTorrentLogs) ELSE <<>>
    /\ active = <<>>
    /\ session = <<>>
    /\ handleGen = <<>>
    /\ alerts = <<>>
    /\ update_task = "running"
    /\ content = [id \in TorrentIds |-> DefaultFiles]
    /\ coro = LoopAtStart(update_task)

NextFiring ==
    \/ \E s \in ScheduleIds : ExecuteSchedule(s)
    \/ \E s \in ScheduleIds, i \in 1..2 : ExecuteFinish(s, i, MaxCandidates)
    \/ \E s \in ScheduleIds, i \in 1..2 : ExecuteFail(s, i)

SpecFiring == InitFiring /\ [][NextFiring]_vars

\* The Job Orchestrator: the process as constructed over an empty database, cron
\* disabled
InitJobs ==
    /\ proc = "up"
    /\ now = 0
    /\ schedules = <<>>
    /\ schedLogs = <<>>
    /\ executing = {}
    /\ created = [s \in ScheduleIds |-> 0]
    /\ bgPending = [s \in ScheduleIds |-> 0]
    /\ inflight = [s \in ScheduleIds |-> <<>>]
    /\ pollPc = "stopped"
    /\ pollRows = <<>>
    /\ ret = Ret("startup", NULL, "true")
    /\ torrents = <<>>
    /\ torrentLogs = <<>>
    /\ active = <<>>
    /\ session = <<>>
    /\ handleGen = <<>>
    /\ alerts = <<>>
    /\ update_task = "running"
    /\ content = [id \in TorrentIds |-> DefaultFiles]
    /\ coro = LoopAtStart(update_task)

Handles == [job : JobIds, gen : 1..MaxHandles]

NextJobs ==
    \/ \E id \in JobIds : CreateJob(id)
    \/ \E id \in JobIds : Pause(id)
    \/ \E id \in JobIds : Resume(id)
    \/ \E id \in JobIds : Stop(id)
    \/ \E id \in JobIds, delete_files \in BOOLEAN : Remove(id, delete_files)
    \/ \E h \in Handles : EngineMetadata(h)
    \/ \E h \in Handles : EngineChecked(h)
    \/ \E h \in Handles : EngineProgress(h)
    \/ \E h \in Handles : EngineSeeds(h)
    \/ \E h \in Handles : EngineError(h)
    \/ UpdateTick
    \/ ManagerShutdown
    \/ ProcessExit
    \/ Startup(FALSE)

SpecJobs == InitJobs /\ [][NextJobs]_vars

\* The job orchestrator over a database whose commits can fail during a tick
NextFaults ==
    \/ NextJobs
    \/ \E failing \in SUBSET JobIds : FailingTick(failing)

SpecFaults == InitJobs /\ [][NextFaults]_vars

\* The application shut down by SIGTERM, cron enabled: each of the two shutdowns may
\* finish, be given up or raise; the event loop goes on running shutdown_event
ShutdownStep ==
    \/ ManagerShutdown
    \/ \E outcome \in Failures : ManagerShutdownFails(outcome)

\* a process started with cron enabled over a database in which an earlier run, ended
\* by a shutdown, left the schedule interrupted
InitShutdown ==
    /\ proc = "up"
    /\ now = 0
    /\ \E period \in 1..MaxPeriod, enabled \in BOOLEAN :
          schedules = [s \in ScheduleIds |->
                         [NewSchedule(period, MaxPollDownloads, enabled)
                            EXCEPT !.status = "interrupted"]]
    /\ schedLogs = [s \in ScheduleIds |-> <<LogEntry("interrupted", NoResults)>>]
    /\ executing = {}
    /\ created = [s \in ScheduleIds |-> 0]
    /\ bgPending = [s \in ScheduleIds |-> 0]
    /\ inflight = [s \in ScheduleIds |-> <<>>]
    /\ pollPc = "sleeping"
    /\ pollRows = <<>>
    /\ ret = Ret("startup", NULL, "true")
    /\ torrents = <<>>
    /\ torrentLogs = <<>>
    /\ active = <<>>
    /\ session = <<>>
    /\ handleGen = <<>>
    /\ alerts = <<>>
    /\ update_task = "running"
    /\ content = [id \in TorrentIds |-> DefaultFiles]
    /\ coro = LoopAtStart(update_task)

NextShutdown ==
    \/ \E s \in ScheduleIds : ExecuteSchedule(s)
    \/ \E s \in ScheduleIds, background \in BOOLEAN : RunNow(s, background)
    \/ \E s \in ScheduleIds : BackgroundRun(s)
    \/ PollWake
    \/ PollResume
    \/ \E s \in ScheduleIds : TaskStart(s)
    \/ \E s \in ScheduleIds, i \in 1..2 : ExecuteFinish(s, i, MaxPollCandidates)
    \/ \E s \in ScheduleIds, i \in 1..2 : ExecuteFail(s, i)
    \/ Tick
    \/ SchedulerShutdown
    \/ \E outcome \in Failures : SchedulerShutdownFails(outcome)
    \/ ShutdownStep
    \/ ExitAfterShutdown

SpecShutdown == InitShutdown /\ [][NextShutdown]_vars /\ WF_vars(ShutdownStep)

\* The job orchestrator step by step: the handlers as the event loop runs them, the
\* engine in its own threads
NextLoop ==
    \/ \E id \in JobIds : LoopCreateJob(id)
    \/ \E c \in Callers, op \in LifecycleOps, id \in JobIds, flag \in BOOLEAN :
          CallEngine(c, op, id, flag)
    \/ \E c \in Callers : CallStore(c)
    \/ TickAlerts
    \/ TickStatus
    \/ \E h \in Handles : EngineMetadata(h)
    \/ \E h \in Handles : EngineProgress(h)
    \/ \E h \in Handles : EngineError(h)

SpecLoop == InitJobs /\ [][NextLoop]_vars

\* After a kill: the process was killed while the schedule, run by RunNow at time 0,
\* was running, and has been started again (cron enabled); its memory is new, the
\* database is as the kill left it
InitCrash ==
    /\ proc = "up"
    /\ now = 0
    /\ \E period \in 1..MaxPeriod, enabled \in BOOLEAN :
          schedules = [s \in ScheduleIds |->
                         [NewSchedule(period, MaxPollDownloads, enabled) EXCEPT !.status = "running"]]
    /\ schedLogs = [s \in ScheduleIds |-> <<LogEntry("manual_run", NoResults)>>]
    /\ executing = {}
    /\ created = [s \in ScheduleIds |-> 0]
    /\ bgPending = [s \in ScheduleIds |-> 0]
    /\ inflight = [s \in ScheduleIds |-> <<>>]
    /\ pollPc = "sleeping"
    /\ pollRows = <<>>
    /\ ret = Ret("startup", NULL, "true")
    /\ torrents = <<>>
    /\ torrentLogs = <<>>
    /\ active = <<>>
    /\ session = <<>>
    /\ handleGen = <<>>
    /\ alerts = <<>>
    /\ update_task = "running"
    /\ content = [id \in TorrentIds |-> DefaultFiles]
    /\ coro = LoopAtStart(update_task)

NextCrash ==
    \/ \E s \in ScheduleIds : ExecuteSchedule(s)
    \/ \E s \in ScheduleIds, background \in BOOLEAN : RunNow(s, background)
    \/ \E s \in ScheduleIds : BackgroundRun(s)
    \/ PollWake
    \/ PollResume
    \/ \E s \in ScheduleIds : TaskStart(s)
    \/ \E s \in ScheduleIds, i \in 1..2 : ExecuteFinish(s, i, MaxPollCandidates)
    \/ \E s \in ScheduleIds, i \in 1..2 : ExecuteFail(s, i)
    \/ Tick
    \/ SchedulerShutdown
    \/ ManagerShutdown
    \/ ProcessExit
    \/ Startup(TRUE)

SpecCrash == InitCrash /\ [][NextCrash]_vars

\* Startup recovery: a process that is down over a database of three jobs, each in a
\* state an earlier run can have stored, with or without resume data
RecoveryIds == {"t1", "t2", "t3"}
StoredStates == {"queued", "downloading", "paused", "finished", "stopped", "error"}

StoredRow(state, blob) ==
    [NewTorrentRow EXCEPT !.state = state,
                          !.progress = IF blob = NoBlob THEN 0 ELSE Percent(blob[1]),
                          !.error_message = IF state = "error" THEN "disk error" ELSE NULL,
                          !.resume_data = blob]

InitRecovery ==
    /\ proc = "down"
    /\ now = 0
    /\ schedules = <<>>
    /\ schedLogs = <<>>
    /\ executing = {}
    /\ created = [s \in ScheduleIds |-> 0]
    /\ bgPending = [s \in ScheduleIds |-> 0]
    /\ inflight = [s \in ScheduleIds |-> <<>>]
    /\ pollPc = "stopped"
    /\ pollRows = <<>>
    /\ ret = Ret("exit", NULL, "true")
    /\ \E st \in [RecoveryIds -> StoredStates], bl \in [RecoveryIds -> {NoBlob, <<1>>}] :
          torrents = [id \in RecoveryIds |-> StoredRow(st[id], bl[id])]
    /\ torrentLogs = [id \in RecoveryIds |-> 1]
    /\ active = <<>>
    /\ session = <<>>
    /\ handleGen = <<>>
    /\ alerts = <<>>
    /\ update_task = "none"
    /\ content = [id \in TorrentIds |-> DefaultFiles]
    /\ coro = LoopAtStart(update_task)

NextRecovery ==
    \/ Startup(FALSE)
    \/ UpdateTick
    \/ ProcessExit

SpecRecovery == InitRecovery /\ [][NextRecovery]_vars

\* Streaming: the process as constructed over an empty database, cron disabled; the
\* torrent of the job has one of the file lists
Extensions == {".mp4", ".MKV", ".txt"}

FileLists ==
    UNION { [1..n -> {File(ext, size) : ext \in Extensions, size \in 0..MaxSize}] : n \in 1..MaxFiles }

InitStreaming ==
    /\ proc = "up"
    /\ now = 0
    /\ schedules = <<>>
    /\ schedLogs = <<>>
    /\ executing = {}
    /\ created = [s \in ScheduleIds |-> 0]
    /\ bgPending = [s \in ScheduleIds |-> 0]
    /\ inflight = [s \in ScheduleIds |-> <<>>]
    /\ pollPc = "stopped"
    /\ pollRows = <<>>
    /\ ret = Ret("startup", NULL, "true")
    /\ torrents = <<>>
    /\ torrentLogs = <<>>
    /\ active = <<>>
    /\ session = <<>>
    /\ handleGen = <<>>
    /\ alerts = <<>>
    /\ update_task = "running"
    /\ \E files \in FileLists : content = [id \in TorrentIds |-> files]
    /\ coro = LoopAtStart(update_task)

NextStreaming ==
    \/ \E id \in JobIds : CreateJob(id)
    \/ \E id \in JobIds : Prioritize(id)
    \/ \E id \in JobIds : GetPrimaryVideoFile(id)
    \/ \E h \in Handles : EngineMetadata(h)
    \/ \E h \in Handles : EngineProgress(h)
    \/ \E h \in Handles : EngineSeeds(h)
    \/ UpdateTick

SpecStreaming == InitStreaming /\ [][NextStreaming]_vars

\* Status records: a database of two job records, each in any state of the state set
\* and with any progress, on which the two conversions are applied
StatusIds == {"t1", "t2"}

InitStatus ==
    /\ proc = "up"
    /\ now = 0
    /\ schedules = <<>>
    /\ schedLogs = <<>>
    /\ executing = {}
    /\ created = [s \in ScheduleIds |-> 0]
    /\ bgPending = [s \in ScheduleIds |-> 0]
    /\ inflight = [s \in ScheduleIds |-> <<>>]
    /\ pollPc = "sleeping"
    /\ pollRows = <<>>
    /\ ret = Ret("startup", NULL, "true")
    /\ \E st \in [StatusIds -> TorrentStateValues], pr \in [StatusIds -> 0..ProgressSteps] :
          torrents = [id \in StatusIds |->
                        [NewTorrentRow EXCEPT !.state = st[id],
                                              !.progress = Percent(pr[id]),
                                              !.error_message =
                                                  IF st[id] = "error" THEN "disk error" ELSE NULL]]
    /\ torrentLogs = [id \in StatusIds |-> 1]
    /\ active = <<>>
    /\ session = <<>>
    /\ handleGen = <<>>
    /\ alerts = <<>>
    /\ update_task = "running"
    /\ content = [id \in TorrentIds |-> DefaultFiles]
    /\ coro = LoopAtStart(update_task)

NextStatus == \E id \in StatusIds : RoundTrip(id)

SpecStatus == InitStatus /\ [][NextStatus]_vars

\* ------------------------------------------------------------------- claims
\* A call of execute_schedule for s made while an execution of s is in flight
OverlappingCall(s) ==
    /\ inflight[s] # <<>>
    /\ ExecuteSchedule(s) \/ BackgroundRun(s) \/ TaskStart(s)

\* C1: of two overlapping ExecuteSchedule calls for one schedule exactly one is past
\* the guard: there is never a second execution in flight, and the call made while one
\* is in flight returns false and leaves the schedule record, its logs, the executing
\* set and the jobs as they were.
C1_OneExecution ==
    [][\A s \in ScheduleIds :
         /\ Len(inflight'[s]) <= 1
         /\ OverlappingCall(s) =>
               /\ ret'.res = "false"
               /\ UNCHANGED <<schedules, schedLogs, executing, inflight, jobVars>>]_vars

\* A call of execute_schedule for s was refused while an execution of s was in flight
C1_Witness ==
    \E s \in ScheduleIds :
       /\ ret.op \in {"execute_schedule", "background_run"}
       /\ ret.id = s
       /\ ret.res = "false"
       /\ Len(inflight[s]) = 1
       /\ schedules[s].status = "running"

\* C2 as claimed: the task the polling loop launched for a schedule gets past the
\* guard: when it runs execute_schedule the schedule is marked running and an
\* execution is in flight.
C2_PolledExecutionRuns ==
    [][\A s \in ScheduleIds :
         (created'[s] < created[s] /\ proc' = "up") =>
            /\ inflight'[s] # <<>>
            /\ schedules'[s].status = "running"]_vars

\* The polling loop launched a task for a due schedule and the task was refused
C2_Witness ==
    \E s \in ScheduleIds :
       /\ ret = Ret("poll_task", s, "false")
       /\ inflight[s] = <<>>
       /\ schedules[s].next_run <= now

\* C3 as claimed: RunNow on an existing schedule that is not executing gets past the
\* guard, inline and as a background task.
C3_RunNowExecutes ==
    [][\A s \in ScheduleIds :
         (s \notin executing /\ inflight[s] = <<>> /\ (RunNow(s, FALSE) \/ BackgroundRun(s)))
         => inflight'[s] # <<>>]_vars

\* RunNow was served without an execution and left the schedule running
C3_Witness ==
    \E s \in ScheduleIds :
       /\ ret = Ret("run_now", s, "false")
       /\ s \notin executing
       /\ inflight[s] = <<>>
       /\ schedules[s].status = "running"

\* The candidates ranked ahead of the one at position p among those at positions P:
\* a higher rating, or the same rating and earlier in the catalog's answer
Ahead(movies, P, p) ==
    {q \in P : \/ movies[q].rating > movies[p].rating
               \/ movies[q].rating = movies[p].rating /\ q < p}

\* The positions of the k highest-ranked among the candidates at positions P
TopRated(movies, P, k) == {p \in P : Cardinality(Ahead(movies, P, p)) < k}

HasQuality(movies) == {p \in DOMAIN movies : movies[p].hasQ}

\* The step in which the execution of s ends after the catalog answered ret'.arg
FiringEnds(s) == inflight[s] # <<>> /\ inflight'[s] = <<>> /\ ret'.res = "true"

JobsCreated == DOMAIN torrents' \ DOMAIN torrents

\* C4 as claimed: the jobs a firing creates are those of the max_downloads
\* highest-rated candidates among the candidates that have the requested quality.
C4_TopOfMatching ==
    [][\A s \in ScheduleIds :
         FiringEnds(s) =>
            LET movies == ret'.arg
                k == inflight[s][1].max_downloads
            IN JobsCreated = {movies[p].id : p \in TopRated(movies, HasQuality(movies), k)}]_vars

\* C4, amended: the jobs a firing creates are those of the candidates that have the
\* requested quality among the max_downloads highest-rated candidates of the whole
\* answer (ties in the answer's order); so at most max_downloads jobs, and fewer when
\* a selected candidate lacks the quality.
C4_MatchingOfTop ==
    [][\A s \in ScheduleIds :
         FiringEnds(s) =>
            LET movies == ret'.arg
                k == inflight[s][1].max_downloads
            IN /\ JobsCreated =
                    {movies[p].id : p \in TopRated(movies, DOMAIN movies, k) \cap HasQuality(movies)}
               /\ Cardinality(JobsCreated) <= k]_vars

\* A firing with max_downloads = 2 over 5 candidates of which 3 have the quality has
\* created fewer than 2 jobs: a selected candidate lacked the quality
C4_Witness ==
    \E s \in ScheduleIds :
       /\ ret.op = "execute_schedule" /\ ret.id = s /\ ret.res = "true"
       /\ schedules[s].max_downloads = 2
       /\ Len(ret.arg) = 5
       /\ Cardinality(HasQuality(ret.arg)) = 3
       /\ \A id \in DOMAIN torrents : torrents[id].state = "queued"
       /\ Cardinality(DOMAIN torrents) = 1
       /\ DOMAIN torrents =
            {ret.arg[p].id : p \in TopRated(ret.arg, DOMAIN ret.arg, 2) \cap HasQuality(ret.arg)}

\* The handles the engine session holds for job id
SessionHandles(id) == {h \in DOMAIN session : h.job = id}

\* C5 as claimed: after Remove returns true for an existing job, with either value of
\* delete_files, the repository no longer has the job (GetStatus finds nothing,
\* ListStatuses does not list it), and it is neither attached nor in the session.
C5_RemoveDeletes ==
    [][\A id \in JobIds, delete_files \in BOOLEAN :
         (id \in DOMAIN torrents /\ Remove(id, delete_files) /\ ret'.res = "true") =>
            /\ GetStatus(torrents', id) = <<>>
            /\ id \notin ListStatuses(torrents')
            /\ id \notin DOMAIN active'
            /\ SessionHandles(id)' = {}]_vars

\* C6 as claimed: after a job has been removed none of its log entries remain.
C6_RemoveCascades ==
    [][\A id \in JobIds, delete_files \in BOOLEAN :
         (id \in DOMAIN torrents /\ Remove(id, delete_files) /\ ret'.res = "true") =>
            LogsOf(torrentLogs', id) = 0]_vars

\* The tick is about to dispatch an error alert of the job attached as id
ErrorPending(id) ==
    /\ id \in DOMAIN active /\ id \in DOMAIN torrents
    /\ torrents[id].state \notin InactiveStates
    /\ \E k \in DOMAIN alerts : alerts[k].type = "error" /\ alerts[k].handle = active[id]

\* C7 as claimed: once the tick that dispatches an error alert of an attached job has
\* completed, the job's stored state is error, its error_message is the alert's
\* message, and the job is no longer attached.
C7_ErrorDetaches ==
    [][\A id \in JobIds :
         (ErrorPending(id) /\ UpdateTick) =>
            /\ torrents'[id].state = "error"
            /\ torrents'[id].error_message = "disk error"
            /\ id \notin DOMAIN active']_vars

\* C8 as claimed: in every repository state a finished job has progress 100.
C8_FinishedFull ==
    \A id \in DOMAIN torrents : torrents[id].state = "finished" => torrents[id].progress = 100

\* The forward chain of the job state machine
ChainOrder(state) ==
    CASE state = "queued" -> 0
      [] state = "checking" -> 1
      [] state = "downloading_metadata" -> 2
      [] state = "downloading" -> 3
      [] OTHER -> 4

Transient == {"allocating", "checking_fastresume"}
Forward == {"queued", "checking", "downloading_metadata", "downloading", "finished", "seeding"}

\* The edges of the job state machine, read generously: forward along the chain (here
\* even over a state), into and out of the transient sub-states, from paused back into
\* the chain, and from anywhere to paused, stopped and error; no edge leaves error or
\* stopped
Edge(a, b) ==
    \/ a = b
    \/ b \in {"paused", "stopped", "error"}
    \/ /\ a \notin {"error", "stopped"}
       /\ b \in Forward \cup Transient
       /\ \/ a \in Transient \cup {"paused"}
          \/ b \in Transient
          \/ ChainOrder(a) <= ChainOrder(b)

\* C9 as claimed: every change of a job's stored state follows an edge of the job
\* state machine; no operation but an explicit retry takes a job out of error.
C9_EdgesOnly ==
    [][\A id \in DOMAIN torrents :
         id \in DOMAIN torrents' => Edge(torrents[id].state, torrents'[id].state)]_vars

\* C10 as claimed: when a save_resume_data alert that answers a request of Stop or of
\* the shutdown is dispatched, its blob is written to the record of the job it is for.
C10_ResumeDataStored ==
    [][\A k \in DOMAIN alerts :
         (alerts[k].type = "save_resume" /\ alerts' = <<>> /\ proc' # "down") =>
            torrents'[alerts[k].handle.job].resume_data = <<alerts[k].arg>>]_vars

\* Resume(id) in which the attachment to the engine, where one is made, does not raise
ResumeAttaching(id) ==
    /\ CanAttach(id)
    /\ JobCall("resume", id, NoArg, ResumeTorrent(JobState, alerts, id, FALSE))

\* C11 as claimed: Resume on a stopped (detached) job whose attachment succeeds returns
\* true and attaches the job again, with its persisted resume data, in the attached map
\* and the session.
C11_StoppedResumes ==
    [][\A id \in JobIds :
         (/\ id \in DOMAIN torrents
          /\ torrents[id].state = "stopped"
          /\ id \notin DOMAIN active
          /\ ResumeAttaching(id)) =>
            /\ ret'.res = "true"
            /\ id \in DOMAIN active'
            /\ active'[id] \in DOMAIN session'
            /\ session'[active'[id]] = NewEngineStatus(torrents[id].resume_data)]_vars

\* Resume was refused on a stopped job, which stays detached
C11_Witness ==
    \E id \in JobIds :
       /\ ret = RetWith("resume", id, "false", NoArg)
       /\ id \in DOMAIN torrents
       /\ torrents[id].state = "stopped"
       /\ id \notin DOMAIN active

\* C12 as claimed: Pause, Resume, Stop and Remove on an id the repository does not have
\* return false and change neither the repository nor the attached map.
C12_UnknownIdRefused ==
    [][\A id \in JobIds :
         (/\ id \notin DOMAIN torrents
          /\ \/ Pause(id) \/ Resume(id) \/ Stop(id)
             \/ \E delete_files \in BOOLEAN : Remove(id, delete_files)) =>
            /\ ret'.res = "false"
            /\ UNCHANGED <<torrents, torrentLogs, active, session>>]_vars

\* Remove answered true for an id the repository does not have
C12_Witness ==
    /\ ret.op = "remove"
    /\ ret.res = "true"
    /\ ret.id \notin DOMAIN torrents
    /\ ret.id \notin DOMAIN active

\* C13 as claimed: Resume on a job whose stored state is neither paused nor stopped, and
\* Pause on a job whose stored state is paused, return false and leave the stored state
\* as it was.
C13_InvalidSourceRefused ==
    [][\A id \in JobIds :
         (/\ id \in DOMAIN torrents
          /\ \/ torrents[id].state \notin {"paused", "stopped"} /\ Resume(id)
             \/ torrents[id].state = "paused" /\ Pause(id)) =>
            /\ ret'.res = "false"
            /\ torrents'[id].state = torrents[id].state]_vars

\* Resume answered true on an attached job that the engine is seeding, and stored
\* the state downloading
C13_Witness ==
    \E id \in JobIds :
       /\ ret = RetWith("resume", id, "true", NoArg)
       /\ id \in DOMAIN active /\ id \in DOMAIN torrents
       /\ session[active[id]].state = Seeding
       /\ torrents[id].state = "downloading"

LastLog(logs, s) == logs[s][Len(logs[s])]

\* C14: when the supervisor's shutdown returns, every schedule that was running is
\* marked interrupted and its latest log entry is an interrupted one, the executing set
\* is empty, and from then until the process ends no schedule is running.
C14_ShutdownInterrupts ==
    [][/\ SchedulerShutdown =>
             /\ executing' = {}
             /\ \A s \in DOMAIN schedules :
                   schedules[s].status = "running" =>
                      /\ schedules'[s].status = "interrupted"
                      /\ schedLogs'[s] # <<>>
                      /\ LastLog(schedLogs', s).status = "interrupted"
       /\ proc' \in {"stopping", "stopped"} =>
             /\ executing' = {}
             /\ \A s \in DOMAIN schedules' : schedules'[s].status # "running"]_vars

\* The shutdown has returned over a schedule that an execution in flight had marked
\* running: the schedule is interrupted, with the log entry
C14_Witness ==
    \E s \in ScheduleIds :
       /\ proc = "stopping"
       /\ ret.op = "scheduler_shutdown"
       /\ s \in DOMAIN schedules
       /\ inflight[s] # <<>>
       /\ schedules[s].status = "interrupted"
       /\ LastLog(schedLogs, s).status = "interrupted"
       /\ executing = {}

\* C15: a schedule left running by a kill is marked interrupted by the next graceful
\* shutdown, which keeps its next_run; an interrupted schedule passes the guard of
\* execute_schedule (a call for it gets past the guard), and the polling loop's due
\* test (an iteration that finds it enabled and due launches a task for it).
C15_CrashRecovers ==
    [][\A s \in DOMAIN schedules :
         /\ (SchedulerShutdown /\ schedules[s].status = "running") =>
               /\ schedules'[s].status = "interrupted"
               /\ schedules'[s].next_run = schedules[s].next_run
               /\ NotRunningRow(schedules', s)
               /\ DueRow(schedules'[s], schedules'[s].next_run)
         /\ (schedules[s].status = "interrupted" /\ s \notin executing /\ ExecuteSchedule(s)) =>
               /\ ret'.res = "awaiting"
               /\ inflight'[s] # <<>>
         /\ (/\ schedules[s].status = "interrupted"
             /\ schedules[s].enabled
             /\ schedules[s].next_run <= now
             /\ s \notin executing
             /\ PollWake) =>
               created'[s] = created[s] + 1]_vars

\* The schedule the kill left running was interrupted by the shutdown of the restarted
\* process, and in the process started after that a call for it is past the guard
C15_Witness ==
    \E s \in ScheduleIds :
       /\ proc = "up"
       /\ ret = Ret("execute_schedule", s, "awaiting")
       /\ inflight[s] # <<>>
       /\ schedules[s].status = "running"
       /\ schedLogs[s] = <<LogEntry("manual_run", NoResults), LogEntry("interrupted", NoResults)>>

\* The step in which an execution of s returns: it leaves inflight while the process
\* goes on (not a cancellation by the shutdown, not the end of the process)
ExecutionReturns(s) == proc' = "up" /\ Len(inflight'[s]) < Len(inflight[s])

\* C16: when an execution that got past the guard returns, the schedule is no longer
\* running, last_run is the time of the return and next_run is strictly after it; the
\* status is "completed (no movies found)" with true returned when the catalog
\* answered no candidate, "completed" with true returned when it answered some, and
\* "error: <message>" with an error log entry and false returned when the query failed.
C16_ExecutionEnds ==
    [][\A s \in ScheduleIds :
         ExecutionReturns(s) =>
            /\ schedules'[s].status # "running"
            /\ schedules'[s].last_run = <<now>>
            /\ schedules'[s].next_run > now
            /\ \/ /\ ret'.res = "true" /\ ret'.arg = <<>>
                  /\ schedules'[s].status = "completed (no movies found)"
               \/ /\ ret'.res = "true" /\ ret'.arg # <<>>
                  /\ schedules'[s].status = "completed"
               \/ /\ ret'.res = "false"
                  /\ schedules'[s].status = "error: browse failed"
                  /\ LastLog(schedLogs', s).status = "error"]_vars

\* An execution begun before the schedule's next_run returned after it, on a failed
\* catalog query: the error is stored and logged and next_run is ahead again
C16_Witness ==
    \E s \in ScheduleIds :
       /\ proc = "up"
       /\ s \in DOMAIN schedules
       /\ ret.op = "execute_schedule" /\ ret.id = s /\ ret.res = "false"
       /\ inflight[s] = <<>>
       /\ schedules[s].status = "error: browse failed"
       /\ LastLog(schedLogs, s).status = "error"
       /\ now = MaxTime
       /\ schedules[s].last_run = <<now>>
       /\ schedules[s].next_run > now

\* The ids of the selected candidates that have the requested quality: the first k of
\* the ranking of the answer `movies`
SelectedMatching(movies, k) ==
    {movies[p].id : p \in TopRated(movies, DOMAIN movies, k) \cap HasQuality(movies)}

\* The jobs attached by the step
JobsStarted == DOMAIN active' \ DOMAIN active

\* C17: a firing in which add_torrent raises for a selected candidate still ends with
\* status completed; every selected candidate that has the quality has been processed
\* (it is a job, attached or in error), and the downloads_started count of the
\* firing's log entry is the number of jobs the firing attached.
C17_FailureSkipsOne ==
    [][\A s \in ScheduleIds :
         (FiringEnds(s) /\ ret'.arg # <<>>) =>
            LET wanted == SelectedMatching(ret'.arg, inflight[s][1].max_downloads)
            IN /\ schedules'[s].status = "completed"
               /\ wanted \subseteq DOMAIN torrents'
               /\ \A id \in wanted \ DOMAIN torrents :
                     id \in DOMAIN active' \/ torrents'[id].state = "error"
               /\ JobsStarted \subseteq wanted
               /\ schedLogs'[s][1].status = "completed"
               /\ schedLogs'[s][1].results.downloads_started = Cardinality(JobsStarted)]_vars

\* A firing selected two candidates with the quality; add_torrent raised for the one
\* ranked first, the one after it was attached, and one download is counted
C17_Witness ==
    \E s \in ScheduleIds :
       /\ ret.op = "execute_schedule" /\ ret.id = s /\ ret.res = "true"
       /\ schedules[s].status = "completed"
       /\ schedLogs[s][1].results.downloads_started = 1
       /\ \E p, q \in DOMAIN ret.arg :
             /\ p < q
             /\ ret.arg[p].rating >= ret.arg[q].rating
             /\ ret.arg[p].id \in DOMAIN torrents
             /\ torrents[ret.arg[p].id].state = "error"
             /\ torrents[ret.arg[p].id].error_message = "attach failed"
             /\ ret.arg[q].id \in DOMAIN active
             /\ DOMAIN active = {ret.arg[q].id}

\* The positions of the selected candidates: the first k of the ranking by rating
Selected(movies, k) == TopRated(movies, DOMAIN movies, k)

\* C18: a firing creates a job for exactly the selected candidates that have the
\* requested quality, the selected being the first max_downloads of the ranking by
\* rating (as many as the firing's log entry counts); a selected candidate without the
\* quality is skipped and not replaced, so the jobs created are at most max_downloads.
C18_JobPerSelected ==
    [][\A s \in ScheduleIds :
         (FiringEnds(s) /\ ret'.arg # <<>>) =>
            LET movies == ret'.arg
                k == inflight[s][1].max_downloads
                top == Selected(movies, k)
            IN /\ schedLogs'[s][1].results.movies_selected = Cardinality(top)
               /\ JobsCreated = {movies[p].id : p \in top \cap HasQuality(movies)}
               /\ Cardinality(JobsCreated) = Cardinality(top) - Cardinality(top \ HasQuality(movies))
               /\ Cardinality(JobsCreated) <= k]_vars

\* A firing with max_downloads = 2 selected a candidate without the quality and one
\* with it, and created the one job, while a candidate ranked after them has the
\* quality and is not a job
C18_Witness ==
    \E s \in ScheduleIds :
       /\ ret.op = "execute_schedule" /\ ret.id = s /\ ret.res = "true"
       /\ schedules[s].max_downloads = 2
       /\ schedules[s].status = "completed"
       /\ schedLogs[s][1].results.movies_selected = 2
       /\ \E p, r \in Selected(ret.arg, 2) :
             /\ ~ret.arg[p].hasQ
             /\ ret.arg[r].hasQ
             /\ DOMAIN torrents = {ret.arg[r].id}
       /\ \E q \in DOMAIN ret.arg \ Selected(ret.arg, 2) : ret.arg[q].hasQ

\* The step in which the process starts
Starts == proc = "down" /\ proc' = "up"

\* The job is attached in the next state as recovery attaches it: in the attached map,
\* its handle in the session with the status the row's resume data gives
Recovered(id) ==
    /\ id \in DOMAIN active'
    /\ active'[id] \in DOMAIN session'
    /\ session'[active'[id]] = NewEngineStatus(torrents[id].resume_data)

\* C19 as claimed: after startup every job whose stored state is not error (finished,
\* stopped, paused and seeding jobs too) is attached with its persisted resume data,
\* unless its attachment failed (which marks it error).
C19_NonErrorAttached ==
    [][Starts =>
         \A id \in DOMAIN torrents :
            torrents[id].state # "error" =>
               \/ Recovered(id)
               \/ /\ torrents'[id].state = "error"
                  /\ id \notin DOMAIN active']_vars

\* The process has started over a stopped job and has not attached it
C19_Witness ==
    \E id \in RecoveryIds :
       /\ proc = "up"
       /\ ret.op = "startup"
       /\ torrents[id].state = "stopped"
       /\ id \notin DOMAIN active

C21_ShutdownPauses ==
    [][ManagerShutdown =>
         /\ update_task' = "none"
         /\ alerts' = <<>>
         /\ \A id \in DOMAIN active \cap DOMAIN torrents :
               torrents'[id].state = "paused"]_vars

\* The shutdown has returned and a job that is attached is stored as finished
C21_Witness ==
    \E id \in JobIds :
       /\ proc = "stopped"
       /\ ret.op = "manager_shutdown"
       /\ id \in DOMAIN active /\ id \in DOMAIN torrents
       /\ torrents[id].state = "finished"

\* The step attaches job id, which was detached and stored as paused with resume data
ReattachesPaused(id) ==
    /\ id \in DOMAIN torrents
    /\ torrents[id].state = "paused"
    /\ torrents[id].resume_data # NoBlob
    /\ id \notin DOMAIN active
    /\ id \in DOMAIN active'

\* C22 as claimed: when a paused job with persisted resume data is attached again, by
\* Resume or by the startup, the progress the engine has for it, which is what the
\* next tick stores, is not below the progress stored before.
C22_ProgressKept ==
    [][\A id \in JobIds :
         ReattachesPaused(id) =>
            Percent(session'[active'[id]].progress) >= torrents[id].progress]_vars

\* A paused job has been attached again by the startup from resume data that is older
\* than its stored progress
C22_Witness ==
    \E id \in JobIds :
       /\ proc = "up"
       /\ ret.op = "startup"
       /\ id \in DOMAIN active /\ id \in DOMAIN torrents
       /\ torrents[id].state = "paused"
       /\ torrents[id].resume_data # NoBlob
       /\ session[active[id]].state = CheckingResumeData
       /\ Percent(session[active[id]].progress) < torrents[id].progress

\* C23: PrioritizeStreaming on a job that is not attached, or whose handle is still
\* downloading its metadata, returns false and leaves the repository (stored state,
\* streaming-optimized mark), the attached map and the session (sequential flag, file
\* priorities) as they were.
C23_PrioritizeNoOp ==
    [][\A id \in JobIds :
         (/\ Prioritize(id)
          /\ \/ id \notin DOMAIN active
             \/ session[active[id]].state = DownloadingMetadata) =>
            /\ ret'.res = "false"
            /\ UNCHANGED <<torrents, torrentLogs, active, session, alerts>>]_vars

\* PrioritizeStreaming was refused on an attached job that has no metadata yet
C23_Witness ==
    \E id \in JobIds :
       /\ ret = RetWith("prioritize", id, "false", NoArg)
       /\ id \in DOMAIN active /\ id \in DOMAIN torrents
       /\ session[active[id]].state = DownloadingMetadata
       /\ session[active[id]].priorities = <<>>
       /\ ~torrents[id].streaming_optimized

\* The positions of the video files among `files`
Videos(files) == {i \in DOMAIN files : IsVideoFile(files[i])}

\* Job id is attached and its handle has the metadata
Streamable(id) == id \in DOMAIN active /\ session[active[id]].state # DownloadingMetadata

\* C24 as claimed: for an attached job with metadata whose torrent has a video file,
\* GetPrimaryVideoFile returns a video file of the largest size among the video files,
\* with its size, the bytes downloaded and their percentage; it returns none exactly
\* when there is no video file, the job is not attached, or it has no metadata.
C24_LargestVideo ==
    [][\A id \in JobIds :
         GetPrimaryVideoFile(id) =>
            LET files == content[id]
            IN IF Streamable(id) /\ Videos(files) # {}
               THEN /\ ret'.res = "found"
                    /\ LET info == ret'.arg[1]
                           k == info.index + 1
                       IN /\ k \in Videos(files)
                          /\ \A j \in Videos(files) : files[j].size <= files[k].size
                          /\ info.size = files[k].size
                          /\ info.downloaded = FileProgress(files, session[active[id]])[k]
                          /\ info.size > 0 => info.progress = (info.downloaded * 100) \div info.size
               ELSE ret'.res = "none"]_vars

\* GetPrimaryVideoFile answered none for an attached job with metadata whose torrent
\* has a video file
C24_Witness ==
    \E id \in JobIds :
       /\ ret = RetWith("get_video_file_info", id, "none", NoVideo)
       /\ Streamable(id)
       /\ Videos(content[id]) # {}

\* Job id's stored state says the download is complete
Completed(id) == id \in DOMAIN torrents /\ torrents[id].state \in {"finished", "seeding"}

\* C25 as claimed: the video of a completed download stays available: for a job whose
\* stored state is finished or seeding and whose torrent has a video file (here one
\* with content, so that the file is one GetPrimaryVideoFile selects while downloading),
\* GetPrimaryVideoFile returns that file's info, after any number of ticks.
C25_VideoStaysAvailable ==
    [][\A id \in JobIds :
         (/\ GetPrimaryVideoFile(id)
          /\ Completed(id)
          /\ \E k \in Videos(content[id]) : content[id][k].size > 0)
         => ret'.res = "found"]_vars

\* GetPrimaryVideoFile answered none for a completed job that has a video file with
\* content and is no longer attached
C25_Witness ==
    \E id \in JobIds :
       /\ ret = RetWith("get_video_file_info", id, "none", NoVideo)
       /\ Completed(id)
       /\ id \notin DOMAIN active
       /\ \E k \in Videos(content[id]) : content[id][k].size > 0

\* C26: to_status followed by update_from_status leaves the id, the state and the
\* progress of the record as they were, for every record and every state of the set;
\* the status in between carries the id of the record.
C26_RoundTrip ==
    [][\A id \in StatusIds :
         RoundTrip(id) =>
            /\ DOMAIN torrents' = DOMAIN torrents
            /\ ret'.arg[1].id = id
            /\ torrents'[id].state = torrents[id].state
            /\ torrents'[id].progress = torrents[id].progress]_vars

\* A round trip was made on a record that is paused, part way, next to one in error
C26_Witness ==
    /\ ret.op = "update_from_status"
    /\ ret.id \in DOMAIN torrents
    /\ torrents[ret.id].state = "paused"
    /\ torrents[ret.id].progress = Percent(1)
    /\ ret.arg[1].state.name = "PAUSED"
    /\ \E other \in DOMAIN torrents : torrents[other].state = "error"

\* The ids the repository holds in a state that is not terminal
NonTerminalIds == {id \in DOMAIN torrents : torrents[id].state \notin {"error", "finished", "stopped"}}

\* C27: after the prune step of a tick every attached id is in the repository with a
\* state that is not error, finished or stopped, and the prune leaves the repository
\* and its log as they were; so what is attached after the tick was not terminal
\* before it: a job whose record became terminal is dropped by the next tick.
C27_PruneReconciles ==
    [][UpdateTick =>
         LET pruned == RefreshActiveTorrents(JobState)
         IN /\ DOMAIN pruned.active \subseteq NonTerminalIds
            /\ pruned.torrents = torrents
            /\ pruned.torrentLogs = torrentLogs
            /\ DOMAIN active' \subseteq NonTerminalIds]_vars

\* A tick has dropped a job whose record is finished: the record is as the tick before
\* left it
C27_Witness ==
    \E id \in JobIds :
       /\ id \in DOMAIN torrents
       /\ torrents[id].state = "finished"
       /\ id \notin DOMAIN active
       /\ \E h \in DOMAIN session : h.job = id /\ session[h].state = Finished

\* C28: at the end of a tick, for every job still attached and in the repository, the
\* stored state is the name TORRENT_STATES gives the engine state polled in the tick
\* and the stored progress is the polled progress times 100, whatever alerts the tick
\* dispatched before and whatever was called before the tick.
C28_TickStoresPolled ==
    [][(UpdateTick \/ \E failing \in SUBSET JobIds : FailingTick(failing)) =>
         \A id \in DOMAIN active' \cap DOMAIN torrents' :
            /\ torrents'[id].state = TORRENT_STATES[session[active'[id]].state + 1]
            /\ torrents'[id].progress = (session[active'[id]].progress * 100) \div ProgressSteps]_vars

\* A tick dispatched an error alert of a paused job part way and stored what it polled
C28_Witness ==
    \E id \in DOMAIN active \cap DOMAIN torrents :
       /\ alerts = <<>>
       /\ torrents[id].error_message # NULL
       /\ session[active[id]].paused
       /\ session[active[id]].progress = 1
       /\ torrents[id].state = "downloading"
       /\ torrents[id].progress = Percent(1)

\* C29 as claimed: when the commit of a job's status fails during a tick, the loop goes
\* on, and the failing job stays attached with the state it had stored, so that its
\* status is stored again by the next tick.
C29_FailureRetried ==
    [][\A failing \in SUBSET JobIds :
         FailingTick(failing) =>
            /\ update_task' = "running"
            /\ \A id \in failing :
                  /\ id \in DOMAIN active'
                  /\ torrents'[id].state = torrents[id].state]_vars

\* A tick whose commit failed has left the job detached and its record in error
C29_Witness ==
    \E id \in JobIds :
       /\ id \in DOMAIN torrents
       /\ torrents[id].state = "error"
       /\ torrents[id].error_message = CommitError
       /\ id \notin DOMAIN active
       /\ update_task = "running"

\* C30: CreateJob of a job the repository does not hold stores the record and then
\* attaches. When the attach fails the call raises, the record is in state error with
\* the cause as its error message, and the job is not attached; when it succeeds the
\* record is queued, the job is attached and the reconciliation loop is running.
C30_CreateJob ==
    [][\A id \in JobIds :
         (CreateJob(id) /\ id \notin DOMAIN torrents) =>
            /\ id \in DOMAIN torrents'
            /\ IF ret'.res = "false"
               THEN /\ torrents'[id].state = "error"
                    /\ torrents'[id].error_message = "attach failed"
                    /\ id \notin DOMAIN active'
                    /\ update_task' = update_task
               ELSE /\ torrents'[id].state = "queued"
                    /\ torrents'[id].error_message = NULL
                    /\ id \in DOMAIN active'
                    /\ active'[id] \in DOMAIN session'
                    /\ update_task' = "running"]_vars

\* CreateJob raised for a failed attach: the record is in error and nothing is attached
C30_Witness ==
    \E id \in JobIds :
       /\ ret = Ret("add_torrent", id, "false")
       /\ id \in DOMAIN torrents
       /\ torrents[id].state = "error"
       /\ torrents[id].error_message = "attach failed"
       /\ id \notin DOMAIN active
       /\ session = <<>>

\* C31: lifecycle calls on a job and the tick's work on it never interleave, and two
\* lifecycle calls never interleave: at any time at most one task is inside its
\* handler, and the loop runs that task, so that no step of another task sees what a
\* handler has applied in part.
C31_Serialized ==
    \A t \in Tasks :
       coro.pc[t] # "idle" =>
          /\ coro.holder = t
          /\ \A u \in Tasks \ {t} : coro.pc[u] = "idle"

\* A pause is applied in part (the handle is paused, the record is not yet) while the
\* reconciliation loop is live and an alert waits for it
C31_Witness ==
    \E c \in Callers, id \in JobIds :
       /\ coro.pc[c] = "store"
       /\ coro.pending[c][1].op = "pause"
       /\ coro.pending[c][1].res = "true"
       /\ id \in DOMAIN active
       /\ session[active[id]].paused
       /\ torrents[id].state # "paused"
       /\ update_task = "running"
       /\ alerts # <<>>

\* C32 as claimed: the callers of CreateJob create no job while max_active_downloads
\* jobs are attached, so the attached map never holds more than max_active_downloads
\* jobs.
C32_CapEnforced == Cardinality(DOMAIN active) <= max_active_downloads

\* One execution of a schedule has attached more jobs than max_active_downloads
C32_Witness ==
    /\ Cardinality(DOMAIN active) > max_active_downloads
    /\ \E s \in ScheduleIds : ret.op = "execute_schedule" /\ ret.id = s

\* C33: the application shutdown terminates: once the scheduler shutdown has been
\* attempted, whether it finished, was given up after its grace period or raised, the
\* orchestrator shutdown is attempted too and, finished or not, shutdown_event ends.
C33_ShutdownTerminates == (ret.op = "scheduler_shutdown") ~> (proc = "stopped")

\* shutdown_event is over after a scheduler shutdown that was given up, which left a
\* schedule running and in the executing set, and an orchestrator shutdown that was
\* given up too
C33_Witness ==
    /\ proc = "stopped"
    /\ ret = Ret("manager_shutdown", NULL, "timeout")
    /\ update_task = "none"
    /\ \E s \in DOMAIN schedules : schedules[s].status = "running" /\ s \in executing

\* Job id is paused: Pause has paused its handle and its record says paused
PausedBy(id) ==
    /\ id \in DOMAIN torrents
    /\ torrents[id].state = "paused"
    /\ id \in DOMAIN active
    /\ session[active[id]].paused

\* C34 as claimed: paused is stable: a record that says paused keeps saying so across
\* the ticks of the reconciliation loop, whatever the engine posted; only Resume, Stop,
\* Remove or an engine error change it.
C34_PausedStable ==
    [][\A id \in JobIds :
         (PausedBy(id) /\ UpdateTick /\ ~\E k \in DOMAIN alerts : alerts[k].type = "error")
         => torrents'[id].state = "paused"]_vars

\* After Pause returned true a tick, with no alert to dispatch, has stored the state
\* the engine reports for the paused handle
C34_Witness ==
    \E id \in JobIds :
       /\ id \in DOMAIN active
       /\ id \in DOMAIN torrents
       /\ session[active[id]].paused
       /\ torrents[id].state = StateName(session[active[id]].state)
       /\ torrents[id].state # "paused"
       /\ torrents[id].error_message = NULL
       /\ alerts = <<>>

\* C35 as claimed: when an execution that got past the guard returns, with success or
\* with failure, its schedule leaves the executing set, so that a later call of
\* ExecuteSchedule made while nothing is in flight is not refused by that guard.
C35_MarkReleased ==
    [][\A s \in ScheduleIds :
         /\ ExecutionReturns(s) => s \notin executing'
         /\ (ExecuteSchedule(s) /\ inflight[s] = <<>>) => ~AlreadyExecuting(executing, s)]_vars

\* ExecuteSchedule was refused while no execution was in flight and the schedule was
\* not running: the executing set still holds the schedule
C35_Witness ==
    \E s \in ScheduleIds :
       /\ ret = Ret("execute_schedule", s, "false")
       /\ inflight[s] = <<>>
       /\ s \in executing
       /\ s \in DOMAIN schedules
       /\ schedules[s].status = "completed"

\* C36 as claimed: while the process is up a schedule is marked running only while an
\* execution of it is in progress (in flight, or queued by RunNow as a background task
\* that has yet to run).
C36_RunningMeansInFlight ==
    proc = "up" =>
       \A s \in DOMAIN schedules :
          schedules[s].status = "running" => (inflight[s] # <<>> \/ bgPending[s] > 0)

\* RunNow was refused and has left the schedule running with nothing in flight
C36_Witness ==
    \E s \in DOMAIN schedules :
       /\ proc = "up"
       /\ ret = Ret("run_now", s, "false")
       /\ schedules[s].status = "running"
       /\ inflight[s] = <<>>
       /\ bgPending[s] = 0
       /\ LastLog(schedLogs, s).status = "manual_run"

\* Job id was removed: Remove with delete_files has stamped its record as deleted
Removed(id) == id \in DOMAIN torrents /\ torrents[id].deleted

\* C37 as claimed: a job that was removed is never attached again, by a tick, by
\* Resume or by the recovery at startup.
C37_RemovedStaysDetached == \A id \in JobIds : Removed(id) => id \notin DOMAIN active

\* Resume returned true for a removed job and has attached it again
C37_Witness ==
    \E id \in JobIds :
       /\ Removed(id)
       /\ ret = Ret("resume", id, "true")
       /\ id \in DOMAIN active
       /\ handleGen[id] = 2

\* The handles active_torrents holds
AttachedHandles == {active[id] : id \in DOMAIN active}

\* C38 as claimed: no handle is orphaned: after every operation the torrents in the
\* engine session are the handles of the attached map.
C38_NoOrphanHandle == DOMAIN session = AttachedHandles

\* A tick has pruned a finished job and its torrent is still in the session
C38_Witness ==
    \E h \in DOMAIN session :
       /\ h \notin AttachedHandles
       /\ h.job \in DOMAIN torrents
       /\ h.job \notin DOMAIN active
       /\ torrents[h.job].state = "finished"
       /\ session[h].state = Finished
       /\ update_task = "running"

\* C39: at most one reconciliation task is live, and it is the one update_task refers
\* to, however often the loop is started; a tick, also one in which a commit raises,
\* ends no task and starts none; a task ends only when the shutdown cancels it or the
\* process ends.
C39_OneLoop ==
    [][/\ coro'.live <= 1
       /\ (coro'.live = 1) <=> (update_task' = "running")
       /\ (UpdateTick \/ \E failing \in SUBSET JobIds : FailingTick(failing)) =>
             (coro'.live = coro.live /\ update_task' = update_task)
       /\ coro'.live < coro.live => proc' \in {"stopped", "down"}]_vars

\* CreateJob has started the loop again in a process whose startup had started it,
\* after a tick in which a commit raised: one task is live
C39_Witness ==
    \E id \in JobIds :
       /\ proc = "up"
       /\ id \in DOMAIN torrents
       /\ torrents[id].error_message = CommitError
       /\ update_task = "running"
       /\ coro.live = 1
       /\ handleGen # <<>>

=============================================================================
